---- MODULE Spec2Model ----
(***************************************************************************)
(* The three-stage crawl pipeline of parallel_programming_webscraper.      *)
(* Two orchestrators exist in the repository and both are modelled:        *)
(*   impl = "packaged" : scraper/nested_scraper.py driving scraper/workers *)
(*   impl = "main"     : the monolithic main.py                            *)
(* Threads are the orchestrator (run), the program, directory and profile  *)
(* workers and the CSV writer.  A thread's position is its pc; a step is   *)
(* the code between two points where another thread can be observed:       *)
(* a loop test, a blocking Queue.get, a page fetch, a lock acquisition.    *)
(***************************************************************************)
EXTENDS Integers, Sequences, FiniteSets, TLC

\* ------------------------------------------------------------------ bounds
\* the whole run, shutdown included (Spec): a small pool and a small site
RunThreads == 1
RunLinks == 1
\* the stages while the orchestrator waits (StagesSpec): more work
MaxThreads == 2
MaxLinks == 2
MaxColleges == 1
MaxAnchors == 1
MaxElems == 1
\* the whole run on a richer site (SiteSpec): directory pages of two elements
SiteElems == 2
\* discovery alone (DiscoverySpec): a larger menu
DiscoveryColleges == 2
DiscoveryLinks == 2

\* ------------------------------------------------------------ value domains
Impls == {"packaged", "main"}
Colleges == {"CCS", "COS"}
\* program names as read from the menu anchors; an anchor without text gives ""
ProgNames == {"", "Computer Technology", "Biology"}
Paths == {"/faculty"}
Emails == {"jane.doe@example.edu"}
BaseUrl == [abs |-> TRUE, path |-> "/"]

\* An href is absolute or relative; "" is the empty href.
Hrefs == {[abs |-> a, path |-> p] : a \in BOOLEAN, p \in Paths}
EmptyHref == [abs |-> FALSE, path |-> ""]
HrefsOrEmpty ==
    {h \in {[abs |-> a, path |-> p] : a \in BOOLEAN, p \in Paths \cup {""}} :
        h.path # "" \/ ~h.abs}

\* Python's None, as a queue item and as a value
None == [kind |-> "None"]

\* urllib.parse.urljoin(base, href): an absolute href is kept, a relative one
\* is resolved against the base, the empty one gives the base
urljoin(base, href) ==
    IF href = EmptyHref THEN base
    ELSE IF href.abs THEN href
    ELSE [abs |-> TRUE, path |-> href.path]

\* a program_name argument left at its default (None)
NoneName == "None"

\* truthiness of a str or None
Truthy(s) == s \notin {"", NoneName}

Max(a, b) == IF a >= b THEN a ELSE b

\* --------------------------------------------------------------- dictionaries
EmptyDict == <<>>
DictPut(d, k, v) == [x \in DOMAIN d \cup {k} |-> IF x = k THEN v ELSE d[x]]
DictGet(d, k, default) == IF k \in DOMAIN d THEN d[k] ELSE default

VARIABLES
    impl,                    \* which orchestrator runs
    num_threads,             \* self.num_threads
    active,                  \* self.active
    expired,                 \* datetime.now() >= self.end_time
    program_queue,           \* self.program_queue
    directory_queue,         \* self.directory_queue
    profile_queue,           \* self.profile_queue
    result_queue,            \* self.result_queue
    processed_faculty_urls,  \* self.processed_faculty_urls: url -> set of program names
    faculty_url_lock,        \* holder of self.faculty_url_lock, or NoThread
    csv_lock,                \* holder of self.csv_lock, or NoThread
    stats,                   \* self.stats
    run_pc,                  \* position of run()
    pc,                      \* position of every worker thread
    loc,                     \* locals of every worker thread
    csv_pc,                  \* position of csv_worker
    csv_rows,                \* rows written to contacts.csv by this run
    csv_file,                \* contacts.csv: the rows on disk and the rows buffered
    driver,                  \* the local driver of every profile thread
    stats_lock,              \* holder of self.stats_lock, or NoThread
    stats_file,              \* contents of scraping_stats.json
    stats_pc,                \* position of stats_worker
    hist                     \* observations of the run (no effect on the program)

vars == <<impl, num_threads, active, expired, program_queue, directory_queue,
          profile_queue, result_queue, processed_faculty_urls, faculty_url_lock,
          stats, run_pc, pc, loc, csv_pc, csv_rows, csv_file, csv_lock, driver,
          stats_lock, stats_file, stats_pc, hist>>

\* ------------------------------------------------------------------- threads
ProgramThreadsOf(n) == {<<"program", i>> : i \in 0 .. (Max(1, n) - 1)}
DirectoryThreadsOf(n) == {<<"directory", i>> : i \in 0 .. (Max(1, n) - 1)}
ProfileThreadsOf(n) == {<<"profile", i>> : i \in 0 .. (n - 1)}

ProgramThreads == ProgramThreadsOf(num_threads)
DirectoryThreads == DirectoryThreadsOf(num_threads)
ProfileThreads == ProfileThreadsOf(num_threads)
StageThreads == ProgramThreads \cup DirectoryThreads \cup ProfileThreads
AllThreadsOf(n) ==
    ProgramThreadsOf(n) \cup DirectoryThreadsOf(n) \cup ProfileThreadsOf(n)

NoThread == <<"none", 0>>

\* a rendering handle: the thread that created it, and whether it is open
NoDriver == [owner |-> NoThread, open |-> FALSE]

\* driver = init_selenium_driver() in the thread t
init_selenium_driver(t) == [owner |-> t, open |-> TRUE]

\* driver.quit()
quit(d) == [d EXCEPT !.open = FALSE]

\* the thread that runs stats_worker: run() itself in the packaged scraper,
\* stats_thread in main.py
StatsThread == <<"stats", 0>>

NoLocal ==
    [item |-> None, url |-> None, seen |-> FALSE, todo |-> <<>>, contacts |-> <<>>,
     call |-> None,    \* the update_stats call the thread is in
     read |-> None]    \* what the thread has read under stats_lock

\* ------------------------------------------------------------- contacts.csv
\* The file as csv_worker has it: the rows on disk and the rows written to the
\* file object and not flushed yet.
CsvHeader == [kind |-> "header"]
NoCsvFile == [disk |-> <<>>, buffer |-> <<>>]

\* faulty variant: the header is written whatever the file holds
csv_open_with_header(file) == [disk |-> file.disk, buffer |-> <<CsvHeader>>]

\* csv_worker: open('contacts.csv', 'a'); seek(0, 2); tell() == 0: writeheader()
csv_open(file) ==
    [disk |-> file.disk, buffer |-> IF Len(file.disk) = 0 THEN <<CsvHeader>> ELSE <<>>]

\* writer.writerow(contact.__dict__)
writerow(file, row) == [file EXCEPT !.buffer = Append(@, row)]

\* csvfile.flush()
flush(file) == [disk |-> file.disk \o file.buffer, buffer |-> <<>>]

\* the with block of csv_worker is left: the file is closed
close(file) == flush(file)

\* ------------------------------------------------------------------- queues
\* Queue(): the maxsize of each of the four queues as constructed; a maxsize
\* of zero or less means that the queue has no capacity limit
maxsize == 0

\* Queue.full(): put() blocks while this holds
full(q) == 0 < maxsize /\ maxsize <= Len(q)

\* ---------------------------------------------------------------- statistics
\* ScraperStatistics as constructed
InitStats ==
    [colleges_count |-> 0,
     programs_visited |-> 0,
     total_pages_visited |-> 1,
     total_emails_recorded |-> 0,
     programs_with_faculty_url |-> EmptyDict,
     programs_without_faculty_url |-> EmptyDict,
     program_personnel_count |-> EmptyDict,
     program_complete_records |-> EmptyDict,
     program_incomplete_records |-> EmptyDict]

\* faulty variant: a faculty_url_failure takes the program out of the successes
update_stats_moving(s, stat_type, program_name) ==
    IF stat_type = "page_visit" THEN
        [s EXCEPT !.total_pages_visited = @ + 1]
    ELSE IF stat_type = "college" THEN
        [s EXCEPT !.colleges_count = @ + 1]
    ELSE IF stat_type = "program" THEN
        [s EXCEPT !.programs_visited = @ + 1, !.total_pages_visited = @ + 1]
    ELSE IF stat_type = "faculty_url_success" /\ Truthy(program_name) THEN
        [s EXCEPT !.programs_with_faculty_url = DictPut(@, program_name, TRUE),
                  !.total_pages_visited = @ + 1]
    ELSE IF stat_type = "faculty_url_failure" /\ Truthy(program_name) THEN
        [s EXCEPT !.programs_without_faculty_url = DictPut(@, program_name, TRUE),
                  !.programs_with_faculty_url =
                      [k \in DOMAIN @ \ {program_name} |-> @[k]]]
    ELSE IF stat_type = "personnel_found" /\ Truthy(program_name) THEN
        [s EXCEPT !.program_personnel_count =
                      DictPut(@, program_name, DictGet(@, program_name, 0) + 1)]
    ELSE IF stat_type = "complete_record" /\ Truthy(program_name) THEN
        [s EXCEPT !.program_complete_records =
                      DictPut(@, program_name, DictGet(@, program_name, 0) + 1),
                  !.total_emails_recorded = @ + 1]
    ELSE IF stat_type = "incomplete_record" /\ Truthy(program_name) THEN
        [s EXCEPT !.program_incomplete_records =
                      DictPut(@, program_name, DictGet(@, program_name, 0) + 1)]
    ELSE s

\* update_stats(stat_type, program_name), the body run under stats_lock
update_stats(s, stat_type, program_name) ==
    IF stat_type = "page_visit" THEN
        [s EXCEPT !.total_pages_visited = @ + 1]
    ELSE IF stat_type = "college" THEN
        [s EXCEPT !.colleges_count = @ + 1]
    ELSE IF stat_type = "program" THEN
        [s EXCEPT !.programs_visited = @ + 1, !.total_pages_visited = @ + 1]
    ELSE IF stat_type = "faculty_url_success" /\ Truthy(program_name) THEN
        [s EXCEPT !.programs_with_faculty_url = DictPut(@, program_name, TRUE),
                  !.total_pages_visited = @ + 1]
    ELSE IF stat_type = "faculty_url_failure" /\ Truthy(program_name) THEN
        [s EXCEPT !.programs_without_faculty_url = DictPut(@, program_name, TRUE)]
    ELSE IF stat_type = "personnel_found" /\ Truthy(program_name) THEN
        [s EXCEPT !.program_personnel_count =
                      DictPut(@, program_name, DictGet(@, program_name, 0) + 1)]
    ELSE IF stat_type = "complete_record" /\ Truthy(program_name) THEN
        [s EXCEPT !.program_complete_records =
                      DictPut(@, program_name, DictGet(@, program_name, 0) + 1),
                  !.total_emails_recorded = @ + 1]
    ELSE IF stat_type = "incomplete_record" /\ Truthy(program_name) THEN
        [s EXCEPT !.program_incomplete_records =
                      DictPut(@, program_name, DictGet(@, program_name, 0) + 1)]
    ELSE s

\* ------------------------------------------------------- the statistics file
\* f"{k} Faculty": the keys of the three per-program count maps as written
FacultyKeys(d) == [k \in {x \o " Faculty" : x \in DOMAIN d} |->
                      LET x == CHOOSE x \in DOMAIN d : x \o " Faculty" = k IN d[x]]

\* ScraperStatistics.to_dict(), n being the num_threads of the run
to_dict(s, n) ==
    [base_url |-> BaseUrl,
     num_threads |-> n,
     colleges_count |-> s.colleges_count,
     programs_visited |-> s.programs_visited,
     total_pages_visited |-> s.total_pages_visited,
     total_emails_recorded |-> s.total_emails_recorded,
     programs_with_faculty_url |-> s.programs_with_faculty_url,
     programs_without_faculty_url |-> s.programs_without_faculty_url,
     program_personnel_count |-> FacultyKeys(s.program_personnel_count),
     program_complete_records |-> FacultyKeys(s.program_complete_records),
     program_incomplete_records |-> FacultyKeys(s.program_incomplete_records)]

\* scraping_stats.json: missing, not JSON, or JSON holding one object or a
\* list of objects (items)
MissingFile == [kind |-> "missing", list |-> FALSE, items |-> <<>>]
CorruptFile == [kind |-> "corrupt", list |-> FALSE, items |-> <<>>]
JsonList(items) == [kind |-> "json", list |-> TRUE, items |-> items]
JsonObject(object) == [kind |-> "json", list |-> FALSE, items |-> <<object>>]

\* the file as an earlier run of the packaged scraper left it
OneRunFile == JsonList(<<to_dict(InitStats, 1)>>)

\* faulty variant: the earlier content is not read
existing_data_dropped(file) == <<>>

\* stats_worker of the packaged scraper: existing_data as loaded from the
\* file; one object is wrapped in a list, a missing or corrupted file gives []
existing_data(file) ==
    IF file.kind # "json" THEN <<>>
    ELSE IF ~file.list THEN <<file.items[1]>>
    ELSE file.items

\* stats_worker of the packaged scraper: the file it writes back
stats_worker(file, s, n) == JsonList(Append(existing_data(file), to_dict(s, n)))

\* the run's observations
InitHist ==
    [claimed |-> EmptyDict,     \* <<url, program_name>> -> number of successful claims
     rejected |-> {},           \* <<url, program_name>> pairs whose claim was rejected
     root |-> None,             \* what the root page fetched by discovery listed
     stubs |-> EmptyDict,       \* <<profile_url, program_name>> -> contacts put on profile_queue
     emails |-> 0,              \* the profile pages on which an email was found
     calls |-> EmptyDict,       \* <<stat_type, program_name>> -> update_stats calls begun
     recorded |-> EmptyDict,    \* <<stat_type, program_name>> -> update_stats calls returned
     stats_file |-> OneRunFile, \* scraping_stats.json as the run found it
     page |-> None,             \* the directory page last fetched and the index as it
                                \* was then, where they are noted
     runs |-> 1]                \* the runs begun on the same contacts.csv

\* ------------------------------------------------------------ the pages fetched
\* sequences over S of length at most n
RECURSIVE SeqsUpTo(_, _)
SeqsUpTo(S, n) ==
    IF n = 0 THEN {<<>>}
    ELSE LET shorter == SeqsUpTo(S, n - 1)
         IN  shorter \cup {Append(q, x) : q \in {r \in shorter : Len(r) = n - 1}, x \in S}

\* The root page: whether the three menu levels are there, and the colleges
\* menu: per college its name, whether it has a program submenu, and the
\* submenu's links (anchor text and href).
MenuLinks == {[name |-> n, href |-> h] : n \in ProgNames, h \in HrefsOrEmpty}
CollegeEntries(max_links) ==
    {[name |-> c, has_menu |-> FALSE, links |-> <<>>] : c \in Colleges}
        \cup {[name |-> c, has_menu |-> TRUE, links |-> ls] :
                 c \in Colleges, ls \in SeqsUpTo(MenuLinks, max_links)}
\* the colleges menus of at most n entries and at most max_links links in all
RECURSIVE CollegeMenus(_, _)
CollegeMenus(n, max_links) ==
    IF n = 0 THEN {<<>>}
    ELSE {<<>>} \cup
         UNION {{<<e>> \o rest : rest \in CollegeMenus(n - 1, max_links - Len(e.links))} :
                   e \in CollegeEntries(max_links)}
RootPages(max_colleges, max_links) ==
    {[menus_ok |-> ok, colleges |-> cs] :
        ok \in BOOLEAN, cs \in CollegeMenus(max_colleges, max_links)}
\* the root pages of the whole-run specification and of the stages specification
RunRootPages == RootPages(MaxColleges, RunLinks)
StagesRootPages == RootPages(MaxColleges, MaxLinks)
DiscoveryRootPages == RootPages(DiscoveryColleges, DiscoveryLinks)

\* faulty variant: a link with an empty href gives an item too
ProgramItemsOfEvery(college_name, links) ==
    [i \in DOMAIN links |->
        [kind |-> "program", college |-> college_name, program |-> links[i].name,
         url |-> urljoin(BaseUrl, links[i].href)]]

\* the items put for one college's submenu, in order
RECURSIVE ProgramItemsOf(_, _)
ProgramItemsOf(college_name, links) ==
    IF links = <<>> THEN <<>>
    ELSE LET l == Head(links)
             rest == ProgramItemsOf(college_name, Tail(links))
         IN  IF l.href # EmptyHref
             THEN <<[kind |-> "program", college |-> college_name,
                     program |-> l.name, url |-> urljoin(BaseUrl, l.href)]>> \o rest
             ELSE rest

\* get_college_program_urls: the walk over the colleges menu; the result is
\* the items put on program_queue and the number of update_stats("college")
RECURSIVE WalkColleges(_)
WalkColleges(cs) ==
    IF cs = <<>> THEN [items |-> <<>>, colleges |-> 0]
    ELSE LET c == Head(cs)
             rest == WalkColleges(Tail(cs))
         IN  IF c.has_menu
             THEN [items |-> ProgramItemsOf(c.name, c.links) \o rest.items,
                   colleges |-> 1 + rest.colleges]
             ELSE rest

\* faulty variant: a missing menu level is not noticed
get_college_program_urls_unchecked(page) == WalkColleges(page.colleges)

get_college_program_urls(page) ==
    IF ~page.menus_ok THEN [items |-> <<>>, colleges |-> 0]
    ELSE WalkColleges(page.colleges)

\* what a root page lists: its colleges, those of them with a program menu,
\* its program links and those of them with an href
RECURSIVE CountLinks(_, _)
CountLinks(cs, with_href) ==
    IF cs = <<>> THEN 0
    ELSE Cardinality({i \in DOMAIN Head(cs).links :
                         with_href => Head(cs).links[i].href # EmptyHref})
             + CountLinks(Tail(cs), with_href)

Listed(page) ==
    [kind |-> "root",
     menus_ok |-> page.menus_ok,
     colleges |-> Len(page.colleges),
     with_menu |-> Cardinality({i \in DOMAIN page.colleges : page.colleges[i].has_menu}),
     links |-> CountLinks(page.colleges, FALSE),
     with_href |-> CountLinks(page.colleges, TRUE)]

\* A program page: the fetch fails, or it has anchors; of an anchor the
\* code reads whether its href contains "faculty", whether its text contains
\* "faculty profile", and the href.
Anchors ==
    {[href_faculty |-> f, text_profile |-> p, href |-> h] :
        f \in BOOLEAN, p \in BOOLEAN, h \in Hrefs}
ProgramPages ==
    {[error |-> TRUE, anchors |-> <<>>]}
        \cup {[error |-> FALSE, anchors |-> a] : a \in SeqsUpTo(Anchors, MaxAnchors)}

\* get_faculty_page up to the lock: the url of the first anchor whose href
\* contains "faculty" and whose text contains "faculty profile", or None
\* (fetch error, no faculty link, no working faculty link)
RECURSIVE FirstFacultyProfile(_)
FirstFacultyProfile(anchors) ==
    IF anchors = <<>> THEN None
    ELSE IF Head(anchors).href_faculty /\ Head(anchors).text_profile
         THEN urljoin(BaseUrl, Head(anchors).href)
         ELSE FirstFacultyProfile(Tail(anchors))

FacultyCandidate(page) ==
    IF page.error THEN None ELSE FirstFacultyProfile(page.anchors)

\* An element a layout selects has no anchor, or a first anchor with its
\* stripped text and its href.
PersonNames == {"", "Faculty Profiles", "Jane Doe"}
Elements ==
    {e \in {[anchor |-> a, text |-> t, href |-> h] :
                a \in BOOLEAN, t \in PersonNames, h \in HrefsOrEmpty} :
        e.anchor \/ (e.text = "" /\ e.href = EmptyHref)}
\* the elements of the richer site: an anchor may also lead to a profile page
\* of its own
PersonHrefs == HrefsOrEmpty \cup {[abs |-> TRUE, path |-> "/faculty/jane-doe"]}
SiteElements ==
    {e \in {[anchor |-> a, text |-> t, href |-> h] :
                a \in BOOLEAN, t \in PersonNames, h \in PersonHrefs} :
        e.anchor \/ (e.text = "" /\ e.href = EmptyHref)}

\* scrape_directory_page, lines 146-150
computer_programs ==
    ("Computer Technology" :> "CT") @@ ("Information Technology" :> "IT")
        @@ ("Software Technology" :> "ST")
ProgramIds == {computer_programs[k] : k \in DOMAIN computer_programs}

\* A directory page as fetched: the fetch fails, or the page is a sequence of
\* sibling divs.  A div carries an id or none (""), is a row (classes vc_row,
\* wpb_row, vc_row-fluid) or not, and holds the person cards (divs of class
\* wpb_column, vc_column_container or vc_col-sm-4) and the text blocks (divs
\* of class wpb_text_column or wpb_content_element) found inside it.
Div(id, row, cards, blocks) == [id |-> id, row |-> row, cards |-> cards, blocks |-> blocks]
ErrorPage == [error |-> TRUE, divs |-> <<>>]
Page(divs) == [error |-> FALSE, divs |-> divs]
\* the three shapes of a page on which one layout alone finds elements e
ProgramDivPage(e) == Page(<<Div("CT", FALSE, <<>>, <<>>), Div("", TRUE, e, <<>>)>>)
CardsPage(e) == Page(<<Div("", FALSE, e, <<>>)>>)
BlocksPage(e) == Page(<<Div("", FALSE, <<>>, e)>>)
DirectoryPages ==
    {ErrorPage}
        \cup {ProgramDivPage(e) : e \in SeqsUpTo(Elements, MaxElems)}
        \cup {CardsPage(e) : e \in SeqsUpTo(Elements, MaxElems)}
        \cup {BlocksPage(e) : e \in SeqsUpTo(Elements, MaxElems)}
SiteDirectoryPages ==
    {ErrorPage}
        \cup {ProgramDivPage(e) : e \in SeqsUpTo(SiteElements, SiteElems)}
        \cup {CardsPage(e) : e \in SeqsUpTo(SiteElements, SiteElems)}
        \cup {BlocksPage(e) : e \in SeqsUpTo(SiteElements, SiteElems)}

\* scrape_directory_page, lines 158-175: the siblings after the start div are
\* scanned up to the next div with a program id; the cards of the rows among
\* them are collected
RECURSIVE FacultyInSiblings(_)
FacultyInSiblings(siblings) ==
    IF siblings = <<>> THEN <<>>
    ELSE IF Head(siblings).id \in ProgramIds THEN <<>>
    ELSE (IF Head(siblings).row THEN Head(siblings).cards ELSE <<>>)
             \o FacultyInSiblings(Tail(siblings))

\* Layout 1, lines 152-177: the first div whose id is the program's code
Layout1(divs, program_name) ==
    IF program_name \notin DOMAIN computer_programs THEN <<>>
    ELSE LET found == {i \in DOMAIN divs : divs[i].id = computer_programs[program_name]}
         IN  IF found = {} THEN <<>>
             ELSE LET start_div == CHOOSE i \in found : \A j \in found : i <= j
                  IN  FacultyInSiblings(SubSeq(divs, start_div + 1, Len(divs)))

\* Layout 2, line 181: every person card of the page
RECURSIVE Layout2(_)
Layout2(divs) ==
    IF divs = <<>> THEN <<>> ELSE Head(divs).cards \o Layout2(Tail(divs))

\* Layout 3, line 185: every text block of the page
RECURSIVE Layout3(_)
Layout3(divs) ==
    IF divs = <<>> THEN <<>> ELSE Head(divs).blocks \o Layout3(Tail(divs))

\* scrape_directory_page, lines 192-200: the elements that reach the lock
IsCandidate(e) ==
    /\ e.anchor
    /\ e.text # "Faculty Profiles"
    /\ e.text # ""
    /\ e.href # EmptyHref

\* the generic cards are tried before the program's own div
WorkerElementsCardsFirst(page, program_name) ==
    IF page.error THEN <<>>
    ELSE IF Layout2(page.divs) # <<>> THEN Layout2(page.divs)
    ELSE IF Layout1(page.divs, program_name) # <<>> THEN Layout1(page.divs, program_name)
    ELSE Layout3(page.divs)

\* scrape_directory_page, lines 140-189: worker_elements, a failed fetch
\* leaving the except branch with nothing
WorkerElements(page, program_name) ==
    IF page.error THEN <<>>
    ELSE IF Layout1(page.divs, program_name) # <<>> THEN Layout1(page.divs, program_name)
    ELSE IF Layout2(page.divs) # <<>> THEN Layout2(page.divs)
    ELSE Layout3(page.divs)

\* A profile page as rendered: the driver fails, or the emails re.findall
\* returns on the visible text
ProfilePages ==
    {[error |-> TRUE, emails |-> <<>>]}
        \cup {[error |-> FALSE, emails |-> m] : m \in SeqsUpTo(Emails, 1)}

\* scrape_profile_page: the contact, with its email set to the first match
scrape_profile_page(page, contact) ==
    IF ~page.error /\ Len(page.emails) > 0
    THEN [contact EXCEPT !.email = page.emails[1]]
    ELSE contact

\* ContactInfo
ContactInfo(full_name, college_name, program_name, profile_url) ==
    [kind |-> "contact", email |-> NoneName, name |-> full_name, office |-> college_name,
     department |-> program_name, profile_url |-> profile_url]

\* ------------------------------------------------------------------ the state
InitWith(max_threads) ==
    /\ impl \in Impls
    /\ num_threads \in 0 .. max_threads
    /\ active = TRUE
    /\ expired = FALSE
    /\ program_queue = <<>>
    /\ directory_queue = <<>>
    /\ profile_queue = <<>>
    /\ result_queue = <<>>
    /\ processed_faculty_urls = EmptyDict
    /\ faculty_url_lock = NoThread
    /\ stats = InitStats
    /\ run_pc = "discover"
    /\ pc = [t \in AllThreadsOf(max_threads) |-> "unstarted"]
    /\ loc = [t \in AllThreadsOf(max_threads) \cup {StatsThread} |-> NoLocal]
    /\ csv_pc = "unstarted"
    /\ csv_rows = <<>>
    /\ csv_file = NoCsvFile
    /\ csv_lock = NoThread
    /\ driver = [t \in AllThreadsOf(max_threads) |-> NoDriver]
    /\ stats_lock = NoThread
    /\ stats_file = OneRunFile
    /\ stats_pc = "unstarted"
    /\ hist = InitHist

Init == InitWith(RunThreads)

\* datetime.now() reaches self.end_time.  Every read of the clock is guarded
\* by self.active, so the instant is only followed while active is set.
DeadlinePasses ==
    /\ ~expired
    /\ active
    /\ expired' = TRUE
    /\ UNCHANGED <<impl, csv_lock, csv_file, num_threads, active, program_queue, directory_queue,
                   profile_queue, result_queue, processed_faculty_urls,
                   faculty_url_lock, stats, run_pc, pc, loc, csv_pc, csv_rows, hist,
                   driver, stats_lock, stats_file, stats_pc>>

\* --------------------------------------------------------------- orchestrator
RECURSIVE UpdateStatsTimes(_, _, _)
UpdateStatsTimes(s, stat_type, n) ==
    IF n = 0 THEN s ELSE UpdateStatsTimes(update_stats(s, stat_type, NoneName), stat_type, n - 1)

\* run(): program_worker.get_college_program_urls() on the main thread
Discover(pages) ==
    /\ run_pc = "discover"
    /\ \E page \in pages :
          LET found == get_college_program_urls(page)
          IN  /\ program_queue' = program_queue \o found.items
              /\ stats' = UpdateStatsTimes(stats, "college", found.colleges)
              /\ hist' = [hist EXCEPT !.root = Listed(page)]
    /\ run_pc' = "start"
    /\ UNCHANGED <<impl, csv_lock, csv_file, num_threads, active, expired, directory_queue, profile_queue,
                   result_queue, processed_faculty_urls, faculty_url_lock, pc, loc,
                   csv_pc, csv_rows, driver, stats_lock, stats_file, stats_pc>>

\* faulty variant: the threads are started before discovery is made
StartThreadsFirst ==
    /\ run_pc \in {"discover", "start"}
    /\ run_pc = "discover" => \A t \in StageThreads : pc[t] = "unstarted"
    /\ pc' = [t \in DOMAIN pc |->
                 IF t \in StageThreads /\ pc[t] = "unstarted" THEN "check" ELSE pc[t]]
    /\ driver' = [t \in DOMAIN driver |->
                     IF t \in ProfileThreads THEN init_selenium_driver(t) ELSE driver[t]]
    /\ csv_pc' = IF csv_pc = "unstarted" THEN "check" ELSE csv_pc
    /\ csv_file' = IF csv_pc = "unstarted" THEN csv_open(csv_file) ELSE csv_file
    /\ run_pc' = IF run_pc = "start" THEN "wait" ELSE run_pc
    /\ UNCHANGED <<impl, csv_lock, num_threads, active, expired, program_queue, directory_queue,
                   profile_queue, result_queue, processed_faculty_urls,
                   faculty_url_lock, stats, loc, csv_rows, hist,
                   stats_lock, stats_file, stats_pc>>

\* run(): the worker threads and the CSV writer are created and started; a
\* profile thread begins with driver = init_selenium_driver(), before its
\* loop, and csv_worker begins with opening contacts.csv
StartThreads ==
    /\ run_pc = "start"
    /\ pc' = [t \in DOMAIN pc |-> IF t \in StageThreads THEN "check" ELSE pc[t]]
    /\ driver' = [t \in DOMAIN driver |->
                     IF t \in ProfileThreads THEN init_selenium_driver(t) ELSE driver[t]]
    /\ csv_pc' = "check"
    /\ csv_file' = csv_open(csv_file)
    /\ run_pc' = "wait"
    /\ UNCHANGED <<impl, csv_lock, num_threads, active, expired, program_queue, directory_queue,
                   profile_queue, result_queue, processed_faculty_urls,
                   faculty_url_lock, stats, loc, csv_rows, hist,
                   stats_lock, stats_file, stats_pc>>

is_alive(t) == pc[t] \notin {"unstarted", "done"}
csv_is_alive == csv_pc \notin {"unstarted", "done"}

\* faulty variant: the wait loop does not look at the threads
WaitConditionQueuesOnly ==
    /\ ~expired
    /\ active
    /\ ~(program_queue = <<>> /\ directory_queue = <<>> /\ profile_queue = <<>>)

\* the condition of run()'s wait loop
WaitCondition ==
    /\ ~expired
    /\ active
    /\ \/ ~(program_queue = <<>> /\ directory_queue = <<>> /\ profile_queue = <<>>)
       \/ (\E t \in StageThreads : is_alive(t)) \/ csv_is_alive

\* run(): the wait loop ends (an iteration that sleeps changes nothing)
WaitEnds ==
    /\ run_pc = "wait"
    /\ ~WaitCondition
    /\ run_pc' = "finally"
    /\ UNCHANGED <<impl, csv_lock, csv_file, num_threads, active, expired, program_queue, directory_queue,
                   profile_queue, result_queue, processed_faculty_urls,
                   faculty_url_lock, stats, pc, loc, csv_pc, csv_rows, hist, driver,
                   stats_lock, stats_file, stats_pc>>

\* run(): KeyboardInterrupt in the wait loop; the except clause logs it
Interrupt ==
    /\ run_pc = "wait"
    /\ run_pc' = "except"
    /\ UNCHANGED <<impl, csv_lock, csv_file, num_threads, active, expired, program_queue, directory_queue,
                   profile_queue, result_queue, processed_faculty_urls,
                   faculty_url_lock, stats, pc, loc, csv_pc, csv_rows, hist, driver,
                   stats_lock, stats_file, stats_pc>>

\* faulty variant: after a KeyboardInterrupt run() returns from its except
\* clause without the shutdown
ClearActiveUnlessInterrupted ==
    /\ run_pc \in {"finally", "except"}
    /\ active' = (run_pc = "except")
    /\ run_pc' = IF run_pc = "except" THEN "done"
                 ELSE IF impl = "main" THEN "signal" ELSE "join"
    /\ UNCHANGED <<impl, csv_lock, csv_file, num_threads, expired, program_queue, directory_queue,
                   profile_queue, result_queue, processed_faculty_urls,
                   faculty_url_lock, stats, pc, loc, csv_pc, csv_rows, hist, driver,
                   stats_lock, stats_file, stats_pc>>

\* run(), finally: self.active = False
ClearActive ==
    /\ run_pc \in {"finally", "except"}
    /\ active' = FALSE
    /\ run_pc' = IF impl = "main" THEN "signal" ELSE "join"
    /\ UNCHANGED <<impl, csv_lock, csv_file, num_threads, expired, program_queue, directory_queue,
                   profile_queue, result_queue, processed_faculty_urls,
                   faculty_url_lock, stats, pc, loc, csv_pc, csv_rows, hist, driver,
                   stats_lock, stats_file, stats_pc>>

\* faulty variant: one None too few
SentinelsButOne(n) == [i \in 1 .. n - 1 |-> None]

\* for _ in range(len(threads)): queue.put(None)
Sentinels(n) == [i \in 1 .. n |-> None]

\* faulty variant: the None for the CSV writer is put with those of the stages,
\* before the joins
SignalThreadsAndWriter ==
    /\ run_pc = "signal"
    /\ program_queue' = program_queue \o Sentinels(Cardinality(ProgramThreads))
    /\ directory_queue' = directory_queue \o Sentinels(Cardinality(DirectoryThreads))
    /\ profile_queue' = profile_queue \o Sentinels(Cardinality(ProfileThreads))
    /\ result_queue' = Append(result_queue, None)
    /\ run_pc' = "join"
    /\ UNCHANGED <<impl, csv_lock, csv_file, num_threads, active, expired,
                   processed_faculty_urls, faculty_url_lock, stats, pc, loc, csv_pc,
                   csv_rows, hist, driver, stats_lock, stats_file, stats_pc>>

\* main.py run(), finally: one None per thread of each stage
SignalThreads ==
    /\ run_pc = "signal"
    /\ program_queue' = program_queue \o Sentinels(Cardinality(ProgramThreads))
    /\ directory_queue' = directory_queue \o Sentinels(Cardinality(DirectoryThreads))
    /\ profile_queue' = profile_queue \o Sentinels(Cardinality(ProfileThreads))
    /\ run_pc' = "join"
    /\ UNCHANGED <<impl, csv_lock, csv_file, num_threads, active, expired, result_queue,
                   processed_faculty_urls, faculty_url_lock, stats, pc, loc, csv_pc,
                   csv_rows, hist, driver, stats_lock, stats_file, stats_pc>>

\* faulty variant: the joins have no timeout and wait for every thread to end
JoinThreadsUntimed ==
    /\ run_pc = "join"
    /\ \A t \in StageThreads : ~is_alive(t)
    /\ ~csv_is_alive
    /\ impl = "packaged" => stats_lock = NoThread
    /\ result_queue' = IF impl = "main" THEN Append(result_queue, None) ELSE result_queue
    /\ stats_file' = IF impl = "packaged"
                     THEN stats_worker(stats_file, stats, num_threads)
                     ELSE stats_file
    /\ run_pc' = "done"
    /\ UNCHANGED <<impl, csv_lock, csv_file, num_threads, active, expired, program_queue, directory_queue,
                   profile_queue, processed_faculty_urls, faculty_url_lock, stats, pc,
                   loc, csv_pc, csv_rows, hist, driver, stats_lock, stats_pc>>

\* run(), finally: thread.join(timeout=5) over all threads (a join returns
\* when its thread has ended or when the timeout has run out); then main.py
\* puts None on result_queue, the packaged run() calls stats_worker(), which
\* takes stats_lock, rewrites the statistics file and leaves the lock; run()
\* returns
JoinThreads ==
    /\ run_pc = "join"
    /\ impl = "packaged" => stats_lock = NoThread
    /\ result_queue' = IF impl = "main" THEN Append(result_queue, None) ELSE result_queue
    /\ stats_file' = IF impl = "packaged"
                     THEN stats_worker(stats_file, stats, num_threads)
                     ELSE stats_file
    /\ run_pc' = "done"
    /\ UNCHANGED <<impl, csv_lock, csv_file, num_threads, active, expired, program_queue, directory_queue,
                   profile_queue, processed_faculty_urls, faculty_url_lock, stats, pc,
                   loc, csv_pc, csv_rows, hist, driver, stats_lock, stats_pc>>

\* ------------------------------------------------------------- worker threads
Kind(t) == t[1]

\* faulty variant: a worker loop also ends when its input queue is empty
WhileConditionWhileItems(kind) ==
    /\ active
    /\ (impl = "main" \/ kind = "program") => ~expired
    /\ IF kind = "program" THEN program_queue # <<>>
       ELSE IF kind = "directory" THEN directory_queue # <<>>
       ELSE profile_queue # <<>>

\* the while condition of a worker loop: process() of the packaged workers,
\* program_worker / directory_worker / profile_worker of main.py
WhileCondition(kind) ==
    IF impl = "packaged"
    THEN IF kind = "program" THEN active /\ ~expired ELSE active
    ELSE active /\ ~expired

InputQueue(kind) ==
    IF kind = "program" THEN program_queue
    ELSE IF kind = "directory" THEN directory_queue
    ELSE profile_queue

\* faulty variant: the lock excludes nobody
LockFreeAlways(lock) == TRUE

\* Lock.acquire() returns only while no thread holds the lock
LockFree(lock) == lock = NoThread

\* faulty variant: nothing is ever found registered
AlreadyProcessedNever(urls, url, program_name) == FALSE

\* the test made under faculty_url_lock: the url is known for this program
AlreadyProcessed(urls, url, program_name) ==
    url \in DOMAIN urls /\ program_name \in urls[url]

\* faulty variant: registering a program for a known url forgets the programs
\* registered for it before
RegisterAlone(urls, url, program_name) == DictPut(urls, url, {program_name})

\* the registration made under faculty_url_lock
Register(urls, url, program_name) ==
    IF url \in DOMAIN urls
    THEN DictPut(urls, url, urls[url] \cup {program_name})
    ELSE DictPut(urls, url, {program_name})

Claimed(h, url, program_name) ==
    [h EXCEPT !.claimed = DictPut(@, <<url, program_name>>,
                                  DictGet(@, <<url, program_name>>, 0) + 1)]
Rejected(h, url, program_name) ==
    [h EXCEPT !.rejected = @ \cup {<<url, program_name>>}]

\* the code after a worker's loop: ProfileWorker.process calls driver.quit(),
\* profile_worker of main.py ends with its loop
AfterLoop(t, d) ==
    IF impl = "packaged" /\ Kind(t) = "profile" THEN quit(d) ELSE d

\* a worker evaluates its while condition; when it is false the worker leaves
\* the loop, runs the code after it, and its thread ends
LoopTest(t) ==
    /\ pc[t] = "check"
    /\ pc' = [pc EXCEPT ![t] = IF WhileCondition(Kind(t)) THEN "get" ELSE "done"]
    /\ driver' = IF WhileCondition(Kind(t))
                 THEN driver
                 ELSE [driver EXCEPT ![t] = AfterLoop(t, @)]
    /\ UNCHANGED <<impl, csv_lock, csv_file, num_threads, active, expired, program_queue, directory_queue,
                   profile_queue, result_queue, processed_faculty_urls,
                   faculty_url_lock, stats, run_pc, loc, csv_pc, csv_rows, hist,
                   stats_lock, stats_file, stats_pc>>

\* faulty variant: the item taken stays on the queue for another try
ProgramGetAndKeep(t) ==
    /\ pc[t] = "get"
    /\ program_queue # <<>>
    /\ LET item == Head(program_queue)
       IN  IF item = None
           THEN /\ pc' = [pc EXCEPT ![t] = "done"]
                /\ program_queue' = Tail(program_queue)
                /\ UNCHANGED <<loc, stats>>
           ELSE /\ pc' = [pc EXCEPT ![t] = "fetch"]
                /\ program_queue' = Append(Tail(program_queue), item)
                /\ loc' = [loc EXCEPT ![t] = [NoLocal EXCEPT !.item = item]]
                /\ stats' = IF stats.programs_visited < MaxLinks
                            THEN update_stats(stats, "program", NoneName)
                            ELSE stats
    /\ UNCHANGED <<impl, csv_lock, csv_file, num_threads, active, expired, directory_queue, profile_queue,
                   result_queue, processed_faculty_urls, faculty_url_lock, run_pc,
                   csv_pc, csv_rows, hist, driver, stats_lock, stats_file, stats_pc>>

\* ProgramWorker.process / program_worker: program_queue.get(block=True); on
\* None the loop breaks, otherwise update_stats("program") and the fetch begins
ProgramGet(t) ==
    /\ pc[t] = "get"
    /\ program_queue # <<>>
    /\ program_queue' = Tail(program_queue)
    /\ LET item == Head(program_queue)
       IN  IF item = None
           THEN /\ pc' = [pc EXCEPT ![t] = "done"]
                /\ UNCHANGED <<loc, stats>>
           ELSE /\ pc' = [pc EXCEPT ![t] = "fetch"]
                /\ loc' = [loc EXCEPT ![t] = [NoLocal EXCEPT !.item = item]]
                /\ stats' = update_stats(stats, "program", NoneName)
    /\ UNCHANGED <<impl, csv_lock, csv_file, num_threads, active, expired, directory_queue, profile_queue,
                   result_queue, processed_faculty_urls, faculty_url_lock, run_pc,
                   csv_pc, csv_rows, hist, driver, stats_lock, stats_file, stats_pc>>

\* faulty variant: the exception leaves the loop
ProgramFailsAndEnds(t) ==
    /\ pc' = [pc EXCEPT ![t] = "done"]
    /\ loc' = [loc EXCEPT ![t] = NoLocal]
    /\ stats' = update_stats(stats, "faculty_url_failure", loc[t].item.program)

\* the except branch of the program loop: update_stats("faculty_url_failure")
\* and the next iteration
ProgramFails(t) ==
    /\ pc' = [pc EXCEPT ![t] = "check"]
    /\ loc' = [loc EXCEPT ![t] = NoLocal]
    /\ stats' = update_stats(stats, "faculty_url_failure", loc[t].item.program)

\* get_faculty_page: the program page is fetched and searched.  Without a
\* candidate it returns None and process() raises; with one the worker goes
\* on to faculty_url_lock.
ProgramFetched(t) ==
    /\ pc[t] = "fetch"
    /\ \E page \in ProgramPages :
          LET url == FacultyCandidate(page)
          IN  IF url = None
              THEN ProgramFails(t)
              ELSE /\ pc' = [pc EXCEPT ![t] = "claim"]
                   /\ loc' = [loc EXCEPT ![t].url = url]
                   /\ UNCHANGED stats
    /\ UNCHANGED <<impl, csv_lock, csv_file, num_threads, active, expired, program_queue, directory_queue,
                   profile_queue, result_queue, processed_faculty_urls,
                   faculty_url_lock, run_pc, csv_pc, csv_rows, hist, driver,
                   stats_lock, stats_file, stats_pc>>

\* the contacts put on profile_queue are noted
RECURSIVE Stubbed(_, _)
Stubbed(h, contacts) ==
    IF contacts = <<>> THEN h
    ELSE LET k == <<Head(contacts).profile_url, Head(contacts).department>>
         IN  Stubbed([h EXCEPT !.stubs = DictPut(@, k, DictGet(@, k, 0) + 1)],
                     Tail(contacts))

\* `with faculty_url_lock:` is entered and the membership test is made
\* (get_faculty_page and scrape_directory_page alike)
LockAndTest(t) ==
    /\ pc[t] = "claim"
    /\ LockFree(faculty_url_lock)
    /\ faculty_url_lock' = t
    /\ loc' = [loc EXCEPT ![t].seen =
                  AlreadyProcessed(processed_faculty_urls, loc[t].url, loc[t].item.program)]
    /\ pc' = [pc EXCEPT ![t] = "locked"]
    /\ UNCHANGED <<impl, csv_lock, csv_file, num_threads, active, expired, program_queue, directory_queue,
                   profile_queue, result_queue, processed_faculty_urls, stats, run_pc,
                   csv_pc, csv_rows, hist, driver, stats_lock, stats_file, stats_pc>>

\* the tuple put on directory_queue
DirectoryItem(item, faculty_url) ==
    [kind |-> "directory", college |-> item.college, program |-> item.program,
     url |-> faculty_url]

\* get_faculty_page leaves the lock.  A known (url, program) returns None and
\* process() raises; otherwise the pair is registered, the url is returned,
\* update_stats("faculty_url_success") is called and the item is put on
\* directory_queue.
ProgramUnlock(t) ==
    /\ pc[t] = "locked"
    /\ Kind(t) = "program"
    /\ faculty_url_lock' = NoThread
    /\ LET item == loc[t].item
           url == loc[t].url
       IN  IF loc[t].seen
           THEN /\ ProgramFails(t)
                /\ hist' = Rejected(hist, url, item.program)
                /\ UNCHANGED <<processed_faculty_urls, directory_queue>>
           ELSE /\ processed_faculty_urls' =
                       Register(processed_faculty_urls, url, item.program)
                /\ stats' = update_stats(stats, "faculty_url_success", item.program)
                /\ directory_queue' = Append(directory_queue, DirectoryItem(item, url))
                /\ hist' = Claimed(hist, url, item.program)
                /\ pc' = [pc EXCEPT ![t] = "check"]
                /\ loc' = [loc EXCEPT ![t] = NoLocal]
    /\ UNCHANGED <<impl, csv_lock, csv_file, num_threads, active, expired, program_queue, profile_queue,
                   result_queue, run_pc, csv_pc, csv_rows, driver,
                   stats_lock, stats_file, stats_pc>>

\* DirectoryWorker.process / directory_worker: directory_queue.get(block=True).
\* On None the packaged loop breaks; main.py unpacks the item first, which
\* raises on None, and the except branch goes to the next iteration.
DirectoryGet(t) ==
    /\ pc[t] = "get"
    /\ Kind(t) = "directory"
    /\ directory_queue # <<>>
    /\ directory_queue' = Tail(directory_queue)
    /\ LET item == Head(directory_queue)
       IN  IF item = None
           THEN /\ pc' = [pc EXCEPT ![t] = IF impl = "packaged" THEN "done" ELSE "check"]
                /\ UNCHANGED loc
           ELSE /\ pc' = [pc EXCEPT ![t] = "fetch"]
                /\ loc' = [loc EXCEPT ![t] = [NoLocal EXCEPT !.item = item]]
    /\ UNCHANGED <<impl, csv_lock, csv_file, num_threads, active, expired, program_queue, profile_queue,
                   result_queue, processed_faculty_urls, faculty_url_lock, stats,
                   run_pc, csv_pc, csv_rows, hist, driver,
                   stats_lock, stats_file, stats_pc>>

\* scrape_directory_page up to the first lock: the page is fetched and its
\* elements are filtered.  With nothing to claim it returns [] and process()
\* raises; the except branch goes to the next iteration.
DirectoryParsed(t, page) ==
    LET todo == SelectSeq(WorkerElements(page, loc[t].item.program), IsCandidate)
    IN  IF todo = <<>>
        THEN /\ pc' = [pc EXCEPT ![t] = "check"]
             /\ loc' = [loc EXCEPT ![t] = NoLocal]
        ELSE /\ pc' = [pc EXCEPT ![t] = "claim"]
             /\ loc' = [loc EXCEPT ![t].todo = todo, ![t].url = Head(todo).href]

DirectoryFetched(t, pages) ==
    /\ pc[t] = "fetch"
    /\ Kind(t) = "directory"
    /\ \E page \in pages : DirectoryParsed(t, page)
    /\ UNCHANGED <<impl, csv_lock, csv_file, num_threads, active, expired, program_queue, directory_queue,
                   profile_queue, result_queue, processed_faculty_urls,
                   faculty_url_lock, stats, run_pc, csv_pc, csv_rows, hist, driver,
                   stats_lock, stats_file, stats_pc>>

\* scrape_directory_page leaves the lock for one element: a known (url,
\* program) is skipped, otherwise the pair is registered, the contact is
\* appended and update_stats("personnel_found") is called.  After the last
\* element the contacts are returned and process() puts each of them on
\* profile_queue (no contacts: it raises and goes to the next iteration).
DirectoryUnlock(t) ==
    /\ pc[t] = "locked"
    /\ Kind(t) = "directory"
    /\ faculty_url_lock' = NoThread
    /\ LET item == loc[t].item
           e == Head(loc[t].todo)
           rest == Tail(loc[t].todo)
           contacts ==
               IF loc[t].seen THEN loc[t].contacts
               ELSE Append(loc[t].contacts,
                           ContactInfo(e.text, item.college, item.program, e.href))
           put == IF rest = <<>> THEN contacts ELSE <<>>
       IN  /\ IF loc[t].seen
              THEN /\ hist' = Stubbed(Rejected(hist, e.href, item.program), put)
                   /\ UNCHANGED <<processed_faculty_urls, stats>>
              ELSE /\ processed_faculty_urls' =
                          Register(processed_faculty_urls, e.href, item.program)
                   /\ stats' = update_stats(stats, "personnel_found", item.program)
                   /\ hist' = Stubbed(Claimed(hist, e.href, item.program), put)
           /\ IF rest # <<>>
              THEN /\ pc' = [pc EXCEPT ![t] = "claim"]
                   /\ loc' = [loc EXCEPT ![t].todo = rest, ![t].url = Head(rest).href,
                                         ![t].contacts = contacts, ![t].seen = FALSE]
                   /\ UNCHANGED profile_queue
              ELSE /\ pc' = [pc EXCEPT ![t] = "check"]
                   /\ loc' = [loc EXCEPT ![t] = NoLocal]
                   /\ profile_queue' = profile_queue \o contacts
    /\ UNCHANGED <<impl, csv_lock, csv_file, num_threads, active, expired, program_queue, directory_queue,
                   result_queue, run_pc, csv_pc, csv_rows, driver,
                   stats_lock, stats_file, stats_pc>>

\* faulty variant: the contact is read from profile_queue and left on it
ProfileGetAndKeep(t) ==
    /\ pc[t] = "get"
    /\ Kind(t) = "profile"
    /\ profile_queue # <<>>
    /\ LET contact == Head(profile_queue)
       IN  IF contact = None
           THEN /\ pc' = [pc EXCEPT ![t] = "done"]
                /\ driver' = [driver EXCEPT ![t] = AfterLoop(t, @)]
                /\ profile_queue' = Tail(profile_queue)
                /\ UNCHANGED loc
           ELSE /\ pc' = [pc EXCEPT ![t] = "fetch"]
                /\ loc' = [loc EXCEPT ![t] = [NoLocal EXCEPT !.item = contact]]
                /\ UNCHANGED <<driver, profile_queue>>
    /\ UNCHANGED <<impl, csv_lock, csv_file, num_threads, active, expired, program_queue, directory_queue,
                   result_queue, processed_faculty_urls, faculty_url_lock, stats,
                   run_pc, csv_pc, csv_rows, hist, stats_lock, stats_file, stats_pc>>

\* ProfileWorker.process / profile_worker: profile_queue.get(block=True); on
\* None the loop breaks and the code after the loop runs
ProfileGet(t) ==
    /\ pc[t] = "get"
    /\ Kind(t) = "profile"
    /\ profile_queue # <<>>
    /\ profile_queue' = Tail(profile_queue)
    /\ LET contact == Head(profile_queue)
       IN  IF contact = None
           THEN /\ pc' = [pc EXCEPT ![t] = "done"]
                /\ driver' = [driver EXCEPT ![t] = AfterLoop(t, @)]
                /\ UNCHANGED loc
           ELSE /\ pc' = [pc EXCEPT ![t] = "fetch"]
                /\ loc' = [loc EXCEPT ![t] = [NoLocal EXCEPT !.item = contact]]
                /\ UNCHANGED driver
    /\ UNCHANGED <<impl, csv_lock, csv_file, num_threads, active, expired, program_queue, directory_queue,
                   result_queue, processed_faculty_urls, faculty_url_lock, stats,
                   run_pc, csv_pc, csv_rows, hist, stats_lock, stats_file, stats_pc>>

\* faulty variant: every contact is put on result_queue
HasEmailOrNot(contact) == TRUE

\* whether the profile loop puts the contact on result_queue
HasEmail(contact) == Truthy(contact.email)

\* the profile page is rendered and scanned: with an email the contact is put
\* on result_queue and update_stats("complete_record") is called; without one
\* the loop raises and the except branch calls update_stats("incomplete_record")
ProfileFetched(t) ==
    /\ pc[t] = "fetch"
    /\ Kind(t) = "profile"
    /\ \E page \in ProfilePages :
          LET updated_contact == scrape_profile_page(page, loc[t].item)
          IN  /\ IF HasEmail(updated_contact)
                 THEN /\ result_queue' = Append(result_queue, updated_contact)
                      /\ stats' = update_stats(stats, "complete_record",
                                               updated_contact.department)
                 ELSE /\ stats' = update_stats(stats, "incomplete_record",
                                               loc[t].item.department)
                      /\ UNCHANGED result_queue
              /\ hist' = [hist EXCEPT !.emails = @ + Len(page.emails)]
    /\ pc' = [pc EXCEPT ![t] = "check"]
    /\ loc' = [loc EXCEPT ![t] = NoLocal]
    /\ UNCHANGED <<impl, csv_lock, csv_file, num_threads, active, expired, program_queue, directory_queue,
                   profile_queue, processed_faculty_urls, faculty_url_lock, run_pc,
                   csv_pc, csv_rows, driver, stats_lock, stats_file, stats_pc>>

\* ------------------------------------------------------------------ CSV writer
\* csv_worker: the while condition
CsvWhileCondition == active \/ result_queue # <<>>

CsvLoopTest ==
    /\ csv_pc = "check"
    /\ csv_pc' = IF CsvWhileCondition THEN "get" ELSE "done"
    /\ csv_file' = IF CsvWhileCondition THEN csv_file ELSE close(csv_file)
    /\ UNCHANGED <<impl, csv_lock, num_threads, active, expired, program_queue, directory_queue,
                   profile_queue, result_queue, processed_faculty_urls,
                   faculty_url_lock, stats, run_pc, pc, loc, csv_rows, hist, driver,
                   stats_lock, stats_file, stats_pc>>

\* faulty variant: the writer takes the newest record of the queue instead of
\* the oldest
CsvGetNewest ==
    /\ csv_pc = "get"
    /\ result_queue # <<>>
    /\ result_queue' = SubSeq(result_queue, 1, Len(result_queue) - 1)
    /\ LET contact == result_queue[Len(result_queue)]
       IN  IF contact = None
           THEN /\ csv_pc' = IF impl = "packaged" THEN "done" ELSE "check"
                /\ csv_file' = IF impl = "packaged" THEN close(csv_file) ELSE csv_file
                /\ UNCHANGED csv_rows
           ELSE /\ csv_rows' = Append(csv_rows, contact)
                /\ csv_file' = flush(writerow(csv_file, contact))
                /\ csv_pc' = "check"
    /\ UNCHANGED <<impl, csv_lock, num_threads, active, expired, program_queue, directory_queue,
                   profile_queue, processed_faculty_urls, faculty_url_lock, stats,
                   run_pc, pc, loc, hist, driver, stats_lock, stats_file, stats_pc>>

\* csv_worker: result_queue.get(block=True).  On None the packaged loop breaks
\* and main.py raises into its except branch; a contact is written as one row
\* and the file is flushed.
CsvGet ==
    /\ csv_pc = "get"
    /\ result_queue # <<>>
    /\ result_queue' = Tail(result_queue)
    /\ LET contact == Head(result_queue)
       IN  IF contact = None
           THEN /\ csv_pc' = IF impl = "packaged" THEN "done" ELSE "check"
                /\ csv_file' = IF impl = "packaged" THEN close(csv_file) ELSE csv_file
                /\ UNCHANGED csv_rows
           ELSE /\ csv_rows' = Append(csv_rows, contact)
                /\ csv_file' = flush(writerow(csv_file, contact))
                /\ csv_pc' = "check"
    /\ UNCHANGED <<impl, csv_lock, num_threads, active, expired, program_queue, directory_queue,
                   profile_queue, processed_faculty_urls, faculty_url_lock, stats,
                   run_pc, pc, loc, hist, driver, stats_lock, stats_file, stats_pc>>

\* ------------------------------------------------------------- specification
\* a step of a stage worker or of the CSV writer, the directory pages being
\* drawn from pages
WorkerStep(pages) ==
    \/ \E t \in StageThreads : LoopTest(t)
    \/ \E t \in ProgramThreads : ProgramGet(t)
    \/ \E t \in ProgramThreads : ProgramFetched(t)
    \/ \E t \in ProgramThreads \cup DirectoryThreads : LockAndTest(t)
    \/ \E t \in ProgramThreads : ProgramUnlock(t)
    \/ \E t \in DirectoryThreads : DirectoryGet(t)
    \/ \E t \in DirectoryThreads : DirectoryFetched(t, pages)
    \/ \E t \in DirectoryThreads : DirectoryUnlock(t)
    \/ \E t \in ProfileThreads : ProfileGet(t)
    \/ \E t \in ProfileThreads : ProfileFetched(t)
    \/ CsvLoopTest
    \/ CsvGet

\* The whole run: discovery, the threads, the deadline, interruption and
\* shutdown, on a site of at most RunLinks program links, the directory
\* pages being drawn from pages.
RunNext(pages) ==
    \/ DeadlinePasses
    \/ Discover(RunRootPages)
    \/ StartThreads
    \/ WaitEnds
    \/ Interrupt
    \/ ClearActive
    \/ SignalThreads
    \/ JoinThreads
    \/ WorkerStep(pages)

Next == RunNext(DirectoryPages)

Spec == Init /\ [][Next]_vars

\* the whole run with every thread scheduled again and again and the
\* orchestrator going on: a step that can be taken is eventually taken
FairSpec == Spec /\ WF_vars(Next)

\* The whole run on the richer site: directory pages of up to SiteElems
\* elements.
SiteNext == RunNext(SiteDirectoryPages)

SiteSpec == Init /\ [][SiteNext]_vars

\* Discovery alone, on root pages of at most DiscoveryColleges colleges and
\* DiscoveryLinks program links.
DiscoveryNext == Discover(DiscoveryRootPages)

DiscoverySpec == Init /\ [][DiscoveryNext]_vars

\* The directory stage and what follows it, from the state a run is in when
\* two program items of one program, whose pages link to different faculty
\* pages, have been processed and every thread is started: two directory
\* items of the same program wait on directory_queue.
OtherFacultyUrl == [abs |-> TRUE, path |-> "/faculty/staff"]

TwoDirectoryItems(college_name, program_name) ==
    LET item == [kind |-> "program", college |-> college_name, program |-> program_name,
                 url |-> urljoin(BaseUrl, [abs |-> FALSE, path |-> "/faculty"])]
        url1 == urljoin(BaseUrl, [abs |-> FALSE, path |-> "/faculty"])
        url2 == OtherFacultyUrl
        s1 == update_stats(InitStats, "college", NoneName)
        s2 == update_stats(update_stats(s1, "program", NoneName), "program", NoneName)
    IN  /\ directory_queue = <<DirectoryItem(item, url1), DirectoryItem(item, url2)>>
        /\ processed_faculty_urls =
               Register(Register(EmptyDict, url1, program_name), url2, program_name)
        /\ stats = update_stats(update_stats(s2, "faculty_url_success", program_name),
                                "faculty_url_success", program_name)
        /\ hist = [Claimed(Claimed(InitHist, url1, program_name), url2, program_name)
                      EXCEPT !.root = [kind |-> "root", menus_ok |-> TRUE, colleges |-> 1,
                                       with_menu |-> 1, links |-> 2, with_href |-> 2]]

DirectoryInit ==
    /\ impl = "packaged"
    /\ num_threads = MaxThreads
    /\ active = TRUE
    /\ expired = FALSE
    /\ program_queue = <<>>
    /\ profile_queue = <<>>
    /\ result_queue = <<>>
    /\ faculty_url_lock = NoThread
    /\ \E college_name \in Colleges, program_name \in ProgNames :
          TwoDirectoryItems(college_name, program_name)
    /\ run_pc = "wait"
    /\ pc = [t \in AllThreadsOf(MaxThreads) |-> "check"]
    /\ loc = [t \in AllThreadsOf(MaxThreads) \cup {StatsThread} |-> NoLocal]
    /\ csv_pc = "check"
    /\ csv_rows = <<>>
    /\ csv_file = csv_open(NoCsvFile)
    /\ csv_lock = NoThread
    /\ driver = [t \in AllThreadsOf(MaxThreads) |->
                    IF Kind(t) = "profile" THEN init_selenium_driver(t) ELSE NoDriver]
    /\ stats_lock = NoThread
    /\ stats_file = OneRunFile
    /\ stats_pc = "unstarted"

DirectoryNext ==
    \/ \E t \in StageThreads : LoopTest(t)
    \/ \E t \in DirectoryThreads : LockAndTest(t)
    \/ \E t \in DirectoryThreads : DirectoryGet(t)
    \/ \E t \in DirectoryThreads : DirectoryFetched(t, DirectoryPages)
    \/ \E t \in DirectoryThreads : DirectoryUnlock(t)
    \/ \E t \in ProfileThreads : ProfileGet(t)
    \/ \E t \in ProfileThreads : ProfileFetched(t)
    \/ CsvLoopTest
    \/ CsvGet

DirectorySpec == DirectoryInit /\ [][DirectoryNext]_vars

\* The layouts of a directory page: one directory worker takes one directory
\* item, of a program with a div of its own or of one without, and fetches a
\* page of at most MaxDivs sibling divs.  The page fetched is noted.
MaxDivs == 3
LayoutCards ==
    {[anchor |-> TRUE, text |-> "Jane Doe", href |-> [abs |-> FALSE, path |-> "/faculty"]],
     [anchor |-> TRUE, text |-> "Jane Doe", href |-> [abs |-> TRUE, path |-> "/faculty"]],
     [anchor |-> TRUE, text |-> "Faculty Profiles",
      href |-> [abs |-> FALSE, path |-> "/faculty"]],
     [anchor |-> TRUE, text |-> "Jane Doe", href |-> EmptyHref]}
LayoutBlocks ==
    {[anchor |-> TRUE, text |-> "Jane Doe", href |-> [abs |-> FALSE, path |-> "/faculty"]]}
LayoutDivs ==
    {Div(id, FALSE, <<>>, <<>>) : id \in {"CT", "IT"}}
        \cup {Div("", row, cards, blocks) :
                 row \in BOOLEAN, cards \in SeqsUpTo(LayoutCards, 1),
                 blocks \in SeqsUpTo(LayoutBlocks, 1)}
LayoutPages == {ErrorPage} \cup {Page(divs) : divs \in SeqsUpTo(LayoutDivs, MaxDivs)}

OneDirectoryItem(college_name, program_name) ==
    LET url == urljoin(BaseUrl, [abs |-> FALSE, path |-> "/faculty"])
        item == [kind |-> "program", college |-> college_name, program |-> program_name,
                 url |-> url]
        s1 == update_stats(InitStats, "college", NoneName)
        s2 == update_stats(s1, "program", NoneName)
    IN  /\ directory_queue = <<DirectoryItem(item, url)>>
        /\ processed_faculty_urls = Register(EmptyDict, url, program_name)
        /\ stats = update_stats(s2, "faculty_url_success", program_name)
        /\ hist = [Claimed(InitHist, url, program_name)
                      EXCEPT !.root = [kind |-> "root", menus_ok |-> TRUE, colleges |-> 1,
                                       with_menu |-> 1, links |-> 1, with_href |-> 1]]

LayoutInit ==
    /\ impl = "packaged"
    /\ num_threads = 1
    /\ active = TRUE
    /\ expired = FALSE
    /\ program_queue = <<>>
    /\ profile_queue = <<>>
    /\ result_queue = <<>>
    /\ faculty_url_lock = NoThread
    /\ \E college_name \in Colleges, program_name \in {"Computer Technology", "Biology"} :
          OneDirectoryItem(college_name, program_name)
    /\ run_pc = "wait"
    /\ pc = [t \in AllThreadsOf(1) |-> "check"]
    /\ loc = [t \in AllThreadsOf(1) \cup {StatsThread} |-> NoLocal]
    /\ csv_pc = "check"
    /\ csv_rows = <<>>
    /\ csv_file = csv_open(NoCsvFile)
    /\ csv_lock = NoThread
    /\ driver = [t \in AllThreadsOf(1) |->
                    IF Kind(t) = "profile" THEN init_selenium_driver(t) ELSE NoDriver]
    /\ stats_lock = NoThread
    /\ stats_file = OneRunFile
    /\ stats_pc = "unstarted"

\* scrape_directory_page up to the first lock, the page and the index being
\* noted
LayoutFetched(t) ==
    /\ pc[t] = "fetch"
    /\ Kind(t) = "directory"
    /\ \E page \in LayoutPages :
          /\ DirectoryParsed(t, page)
          /\ hist' = [hist EXCEPT !.page = [fetched |-> page,
                                            urls |-> processed_faculty_urls]]
    /\ UNCHANGED <<impl, csv_lock, csv_file, num_threads, active, expired, program_queue, directory_queue,
                   profile_queue, result_queue, processed_faculty_urls,
                   faculty_url_lock, stats, run_pc, csv_pc, csv_rows, driver,
                   stats_lock, stats_file, stats_pc>>

LayoutNext ==
    \/ \E t \in DirectoryThreads : LoopTest(t)
    \/ \E t \in DirectoryThreads : DirectoryGet(t)
    \/ \E t \in DirectoryThreads : LayoutFetched(t)
    \/ \E t \in DirectoryThreads : LockAndTest(t)
    \/ \E t \in DirectoryThreads : DirectoryUnlock(t)

LayoutSpec == LayoutInit /\ [][LayoutNext]_vars

\* Consecutive runs on one contacts.csv: a run of one thread per stage, from
\* the state discovery leaves when the root page lists one program link, up
\* to the return of run(); then the process ends and the next run begins on
\* the file as the disk has it.
MaxRuns == 2

AfterDiscovery(file, runs) ==
    LET item == [kind |-> "program", college |-> "CCS", program |-> "Biology",
                 url |-> urljoin(BaseUrl, [abs |-> FALSE, path |-> "/faculty"])]
    IN  [num_threads |-> 1,
         active |-> TRUE,
         expired |-> FALSE,
         program_queue |-> <<item>>,
         directory_queue |-> <<>>,
         profile_queue |-> <<>>,
         result_queue |-> <<>>,
         processed_faculty_urls |-> EmptyDict,
         faculty_url_lock |-> NoThread,
         stats |-> update_stats(update_stats(InitStats, "college", NoneName),
                                "program", NoneName),
         run_pc |-> "start",
         pc |-> [t \in AllThreadsOf(1) |-> "unstarted"],
         loc |-> [t \in AllThreadsOf(1) \cup {StatsThread} |-> NoLocal],
         csv_pc |-> "unstarted",
         csv_rows |-> <<>>,
         csv_file |-> file,
         driver |-> [t \in AllThreadsOf(1) |-> NoDriver],
         stats_lock |-> NoThread,
         stats_pc |-> "unstarted",
         hist |-> [InitHist EXCEPT !.root = [kind |-> "root", menus_ok |-> TRUE,
                                             colleges |-> 1, with_menu |-> 1,
                                             links |-> 1, with_href |-> 1],
                                   !.runs = runs]]

CsvInit ==
    /\ impl \in Impls
    /\ stats_file = OneRunFile
    /\ num_threads = AfterDiscovery(NoCsvFile, 1).num_threads
    /\ active = AfterDiscovery(NoCsvFile, 1).active
    /\ expired = AfterDiscovery(NoCsvFile, 1).expired
    /\ program_queue = AfterDiscovery(NoCsvFile, 1).program_queue
    /\ directory_queue = AfterDiscovery(NoCsvFile, 1).directory_queue
    /\ profile_queue = AfterDiscovery(NoCsvFile, 1).profile_queue
    /\ result_queue = AfterDiscovery(NoCsvFile, 1).result_queue
    /\ processed_faculty_urls = AfterDiscovery(NoCsvFile, 1).processed_faculty_urls
    /\ faculty_url_lock = AfterDiscovery(NoCsvFile, 1).faculty_url_lock
    /\ stats = AfterDiscovery(NoCsvFile, 1).stats
    /\ run_pc = AfterDiscovery(NoCsvFile, 1).run_pc
    /\ pc = AfterDiscovery(NoCsvFile, 1).pc
    /\ loc = AfterDiscovery(NoCsvFile, 1).loc
    /\ csv_pc = AfterDiscovery(NoCsvFile, 1).csv_pc
    /\ csv_rows = AfterDiscovery(NoCsvFile, 1).csv_rows
    /\ csv_file = AfterDiscovery(NoCsvFile, 1).csv_file
    /\ csv_lock = NoThread
    /\ driver = AfterDiscovery(NoCsvFile, 1).driver
    /\ stats_lock = AfterDiscovery(NoCsvFile, 1).stats_lock
    /\ stats_pc = AfterDiscovery(NoCsvFile, 1).stats_pc
    /\ hist = AfterDiscovery(NoCsvFile, 1).hist

\* run() has returned and the process ends: the daemon threads end with it and
\* what csv_worker has not flushed is lost; the next run begins
NextRun ==
    /\ run_pc = "done"
    /\ hist.runs < MaxRuns
    /\ num_threads' = AfterDiscovery([disk |-> csv_file.disk, buffer |-> <<>>], hist.runs + 1).num_threads
    /\ active' = AfterDiscovery([disk |-> csv_file.disk, buffer |-> <<>>], hist.runs + 1).active
    /\ expired' = AfterDiscovery([disk |-> csv_file.disk, buffer |-> <<>>], hist.runs + 1).expired
    /\ program_queue' = AfterDiscovery([disk |-> csv_file.disk, buffer |-> <<>>], hist.runs + 1).program_queue
    /\ directory_queue' = AfterDiscovery([disk |-> csv_file.disk, buffer |-> <<>>], hist.runs + 1).directory_queue
    /\ profile_queue' = AfterDiscovery([disk |-> csv_file.disk, buffer |-> <<>>], hist.runs + 1).profile_queue
    /\ result_queue' = AfterDiscovery([disk |-> csv_file.disk, buffer |-> <<>>], hist.runs + 1).result_queue
    /\ processed_faculty_urls' = AfterDiscovery([disk |-> csv_file.disk, buffer |-> <<>>], hist.runs + 1).processed_faculty_urls
    /\ faculty_url_lock' = AfterDiscovery([disk |-> csv_file.disk, buffer |-> <<>>], hist.runs + 1).faculty_url_lock
    /\ stats' = AfterDiscovery([disk |-> csv_file.disk, buffer |-> <<>>], hist.runs + 1).stats
    /\ run_pc' = AfterDiscovery([disk |-> csv_file.disk, buffer |-> <<>>], hist.runs + 1).run_pc
    /\ pc' = AfterDiscovery([disk |-> csv_file.disk, buffer |-> <<>>], hist.runs + 1).pc
    /\ loc' = AfterDiscovery([disk |-> csv_file.disk, buffer |-> <<>>], hist.runs + 1).loc
    /\ csv_pc' = AfterDiscovery([disk |-> csv_file.disk, buffer |-> <<>>], hist.runs + 1).csv_pc
    /\ csv_rows' = AfterDiscovery([disk |-> csv_file.disk, buffer |-> <<>>], hist.runs + 1).csv_rows
    /\ csv_file' = AfterDiscovery([disk |-> csv_file.disk, buffer |-> <<>>], hist.runs + 1).csv_file
    /\ driver' = AfterDiscovery([disk |-> csv_file.disk, buffer |-> <<>>], hist.runs + 1).driver
    /\ stats_lock' = AfterDiscovery([disk |-> csv_file.disk, buffer |-> <<>>], hist.runs + 1).stats_lock
    /\ stats_pc' = AfterDiscovery([disk |-> csv_file.disk, buffer |-> <<>>], hist.runs + 1).stats_pc
    /\ hist' = AfterDiscovery([disk |-> csv_file.disk, buffer |-> <<>>], hist.runs + 1).hist
    /\ UNCHANGED <<impl, csv_lock, stats_file>>

CsvNext ==
    \/ DeadlinePasses
    \/ StartThreads
    \/ WaitEnds
    \/ Interrupt
    \/ ClearActive
    \/ SignalThreads
    \/ JoinThreads
    \/ WorkerStep(DirectoryPages)
    \/ NextRun

CsvSpec == CsvInit /\ [][CsvNext]_vars

\* The stages while the orchestrator stays in its wait loop (no deadline, no
\* interrupt, no shutdown yet), on a site of at most MaxLinks program links.
\* Shutdown and the deadline only stop workers from taking further items, so
\* every sequence of item-processing steps of a whole run is one of these.
StagesInit == InitWith(MaxThreads) /\ num_threads >= 1 /\ impl = "packaged"

StagesNext ==
    \/ Discover(StagesRootPages)
    \/ StartThreads
    \/ WorkerStep(DirectoryPages)

StagesSpec == StagesInit /\ [][StagesNext]_vars

\* ----------------------------------------------------- statistics under load
\* The workers of a started run calling update_stats while stats_worker
\* runs: update_stats and stats_worker in the steps they take under
\* stats_lock.  Every worker makes the calls its loop makes; at most
\* StatsCalls calls are made in all.
StatsCalls == 2
StatsNames == {"", "Biology"}

\* the update_stats calls in the loop of a worker of each stage
CallsOf(kind) ==
    IF kind = "program" THEN
        {[stat_type |-> "program", program_name |-> NoneName]}
            \cup {[stat_type |-> st, program_name |-> p] :
                     st \in {"faculty_url_success", "faculty_url_failure"},
                     p \in StatsNames}
    ELSE IF kind = "directory" THEN
        {[stat_type |-> "personnel_found", program_name |-> p] : p \in StatsNames}
    ELSE
        {[stat_type |-> st, program_name |-> p] :
            st \in {"complete_record", "incomplete_record"}, p \in StatsNames}

CallKey(call) == <<call.stat_type, call.program_name>>

RECURSIVE CallsBegun(_, _)
CallsBegun(calls, keys) ==
    IF keys = {} THEN 0
    ELSE LET k == CHOOSE k \in keys : TRUE
         IN  calls[k] + CallsBegun(calls, keys \ {k})

\* faulty variant: update_stats does not wait for stats_lock
StatsLockFreeAlways(lock) == TRUE

\* `with self.stats_lock:` can be entered
StatsLockFree(lock) == lock = NoThread

\* a worker calls update_stats(stat_type, program_name)
UpdateCall(t) ==
    /\ pc[t] = "check"
    /\ CallsBegun(hist.calls, DOMAIN hist.calls) < StatsCalls
    /\ \E call \in CallsOf(Kind(t)) :
          /\ loc' = [loc EXCEPT ![t] = [NoLocal EXCEPT !.call = call]]
          /\ hist' = [hist EXCEPT !.calls =
                         DictPut(@, CallKey(call), DictGet(@, CallKey(call), 0) + 1)]
    /\ pc' = [pc EXCEPT ![t] = "stats_lock"]
    /\ UNCHANGED <<impl, csv_lock, csv_file, num_threads, active, expired, program_queue, directory_queue,
                   profile_queue, result_queue, processed_faculty_urls,
                   faculty_url_lock, stats, run_pc, csv_pc, csv_rows, driver,
                   stats_lock, stats_file, stats_pc>>

\* update_stats: `with self.stats_lock:` is entered and the statistics are read
UpdateEnter(t) ==
    /\ pc[t] = "stats_lock"
    /\ StatsLockFree(stats_lock)
    /\ stats_lock' = t
    /\ loc' = [loc EXCEPT ![t].read = stats]
    /\ pc' = [pc EXCEPT ![t] = "stats_locked"]
    /\ UNCHANGED <<impl, csv_lock, csv_file, num_threads, active, expired, program_queue, directory_queue,
                   profile_queue, result_queue, processed_faculty_urls,
                   faculty_url_lock, stats, run_pc, csv_pc, csv_rows, driver,
                   stats_file, stats_pc, hist>>

\* the attributes an update assigns, taken from the updated copy
Assigned(current, read, updated) ==
    [f \in DOMAIN current |-> IF updated[f] # read[f] THEN updated[f] ELSE current[f]]

\* the return of an update_stats call is noted
Recorded(h, call) ==
    [h EXCEPT !.recorded = DictPut(@, CallKey(call), DictGet(@, CallKey(call), 0) + 1)]

\* update_stats: the branch of the call assigns its counters from what was
\* read, and the with block is left
UpdateLeave(t) ==
    /\ pc[t] = "stats_locked"
    /\ LET call == loc[t].call
           updated == update_stats(loc[t].read, call.stat_type, call.program_name)
       IN  /\ stats' = Assigned(stats, loc[t].read, updated)
           /\ hist' = Recorded(hist, call)
    /\ stats_lock' = IF stats_lock = t THEN NoThread ELSE stats_lock
    /\ loc' = [loc EXCEPT ![t] = NoLocal]
    /\ pc' = [pc EXCEPT ![t] = "check"]
    /\ UNCHANGED <<impl, csv_lock, csv_file, num_threads, active, expired, program_queue, directory_queue,
                   profile_queue, result_queue, processed_faculty_urls,
                   faculty_url_lock, run_pc, csv_pc, csv_rows, driver, stats_file,
                   stats_pc>>

\* main.py stats_worker: the while condition
StatsLoopTest ==
    /\ stats_pc = "check"
    /\ stats_pc' = IF active \/ result_queue # <<>> THEN "lock" ELSE "done"
    /\ UNCHANGED <<impl, csv_lock, csv_file, num_threads, active, expired, program_queue, directory_queue,
                   profile_queue, result_queue, processed_faculty_urls,
                   faculty_url_lock, stats, run_pc, pc, loc, csv_pc, csv_rows, driver,
                   stats_lock, stats_file, hist>>

\* stats_worker: `with self.stats_lock:` is entered; the packaged one goes on
\* to open the file for reading, main.py's to open it for writing
StatsWorkerLock ==
    /\ stats_pc = "lock"
    /\ stats_lock = NoThread
    /\ stats_lock' = StatsThread
    /\ stats_pc' = IF impl = "packaged" THEN "file_read" ELSE "file_write"
    /\ UNCHANGED <<impl, csv_lock, csv_file, num_threads, active, expired, program_queue, directory_queue,
                   profile_queue, result_queue, processed_faculty_urls,
                   faculty_url_lock, stats, run_pc, pc, loc, csv_pc, csv_rows, driver,
                   stats_file, hist>>

\* packaged stats_worker: the file is opened and loaded into existing_data
StatsWorkerRead ==
    /\ stats_pc = "file_read"
    /\ loc' = [loc EXCEPT ![StatsThread].read = existing_data(stats_file)]
    /\ stats_pc' = "file_write"
    /\ UNCHANGED <<impl, csv_lock, csv_file, num_threads, active, expired, program_queue, directory_queue,
                   profile_queue, result_queue, processed_faculty_urls,
                   faculty_url_lock, stats, run_pc, pc, csv_pc, csv_rows, driver,
                   stats_lock, stats_file, hist>>

\* stats_worker: the file is written and the with block is left.  The
\* packaged one writes existing_data with the snapshot appended and returns;
\* main.py's writes the snapshot alone, sleeps and tests its loop again
StatsWorkerWrite ==
    /\ stats_pc = "file_write"
    /\ stats_file' = IF impl = "packaged"
                     THEN JsonList(Append(loc[StatsThread].read,
                                          to_dict(stats, num_threads)))
                     ELSE JsonObject(to_dict(stats, num_threads))
    /\ stats_lock' = NoThread
    /\ loc' = [loc EXCEPT ![StatsThread] = NoLocal]
    /\ stats_pc' = IF impl = "packaged" THEN "done" ELSE "check"
    /\ UNCHANGED <<impl, csv_lock, csv_file, num_threads, active, expired, program_queue, directory_queue,
                   profile_queue, result_queue, processed_faculty_urls,
                   faculty_url_lock, stats, run_pc, pc, csv_pc, csv_rows, driver, hist>>

\* scraping_stats.json as a run may find it
EarlierRuns ==
    <<to_dict(InitStats, 1),
      to_dict(update_stats(InitStats, "complete_record", "Biology"), 2)>>
StatsFiles ==
    {MissingFile, CorruptFile, JsonObject(EarlierRuns[1])}
        \cup {JsonList(SubSeq(EarlierRuns, 1, n)) : n \in 0 .. Len(EarlierRuns)}

\* The packaged run() is in its finally clause and calls stats_worker after
\* the joins, with the workers that are still alive; main.py's run() is in
\* its wait loop and stats_thread has been started with the workers.
StatsInit ==
    /\ impl \in Impls
    /\ num_threads = MaxThreads
    /\ active = (impl = "main")
    /\ expired = FALSE
    /\ program_queue = <<>>
    /\ directory_queue = <<>>
    /\ profile_queue = <<>>
    /\ result_queue = <<>>
    /\ processed_faculty_urls = EmptyDict
    /\ faculty_url_lock = NoThread
    /\ stats = InitStats
    /\ run_pc = IF impl = "main" THEN "wait" ELSE "join"
    /\ pc = [t \in AllThreadsOf(MaxThreads) |-> "check"]
    /\ loc = [t \in AllThreadsOf(MaxThreads) \cup {StatsThread} |-> NoLocal]
    /\ csv_pc = "check"
    /\ csv_rows = <<>>
    /\ csv_file = csv_open(NoCsvFile)
    /\ csv_lock = NoThread
    /\ driver = [t \in AllThreadsOf(MaxThreads) |->
                    IF Kind(t) = "profile" THEN init_selenium_driver(t) ELSE NoDriver]
    /\ stats_lock = NoThread
    /\ stats_pc = IF impl = "main" THEN "check" ELSE "lock"
    /\ \E file \in StatsFiles :
          /\ stats_file = file
          /\ hist = [InitHist EXCEPT !.stats_file = file]

StatsNext ==
    \/ \E t \in StageThreads : UpdateCall(t)
    \/ \E t \in StageThreads : UpdateEnter(t)
    \/ \E t \in StageThreads : UpdateLeave(t)
    \/ StatsLoopTest
    \/ StatsWorkerLock
    \/ StatsWorkerRead
    \/ StatsWorkerWrite

StatsSpec == StatsInit /\ [][StatsNext]_vars

\* ------------------------------------------------------------ the three locks
\* The workers of a run of one thread a stage, step by step: every `with`
\* block of faculty_url_lock, stats_lock and csv_lock is entered in one step
\* and left in another, and the code between two blocks is a step of its own.
CsvThread == <<"csv", 0>>

\* faulty variant: the directory loop counts a page visit for each contact
CallsPageVisit(t, local, stat_type, program_name) ==
    /\ pc' = [pc EXCEPT ![t] = "stats_lock"]
    /\ loc' = [loc EXCEPT ![t] =
                  [local EXCEPT !.call =
                      [stat_type |-> IF stat_type = "personnel_found"
                                     THEN "page_visit" ELSE stat_type,
                       program_name |-> program_name]]]

\* update_stats(stat_type, program_name) is called by the thread t, whose
\* locals are local: it goes to the with block of stats_lock
Calls(t, local, stat_type, program_name) ==
    /\ pc' = [pc EXCEPT ![t] = "stats_lock"]
    /\ loc' = [loc EXCEPT ![t] =
                  [local EXCEPT !.call = [stat_type |-> stat_type,
                                          program_name |-> program_name]]]

\* program loop: program_queue.get(block=True); on None the loop breaks,
\* otherwise update_stats("program") is called
ProgramGetCalls(t) ==
    /\ pc[t] = "get"
    /\ Kind(t) = "program"
    /\ program_queue # <<>>
    /\ program_queue' = Tail(program_queue)
    /\ LET item == Head(program_queue)
       IN  IF item = None
           THEN /\ pc' = [pc EXCEPT ![t] = "done"]
                /\ UNCHANGED loc
           ELSE Calls(t, [NoLocal EXCEPT !.item = item], "program", NoneName)
    /\ UNCHANGED <<impl, csv_lock, csv_file, num_threads, active, expired, directory_queue,
                   profile_queue, result_queue, processed_faculty_urls, faculty_url_lock,
                   stats, run_pc, csv_pc, csv_rows, hist, driver, stats_lock, stats_file,
                   stats_pc>>

\* get_faculty_page up to the lock: without a candidate it returns None,
\* process() raises and the except branch calls
\* update_stats("faculty_url_failure")
ProgramFetchedCalls(t) ==
    /\ pc[t] = "fetch"
    /\ Kind(t) = "program"
    /\ \E page \in ProgramPages :
          LET url == FacultyCandidate(page)
          IN  IF url = None
              THEN Calls(t, loc[t], "faculty_url_failure", loc[t].item.program)
              ELSE /\ pc' = [pc EXCEPT ![t] = "claim"]
                   /\ loc' = [loc EXCEPT ![t].url = url]
    /\ UNCHANGED <<impl, csv_lock, csv_file, num_threads, active, expired, program_queue,
                   directory_queue, profile_queue, result_queue, processed_faculty_urls,
                   faculty_url_lock, stats, run_pc, csv_pc, csv_rows, hist, driver,
                   stats_lock, stats_file, stats_pc>>

\* get_faculty_page leaves faculty_url_lock, which is then held by after: a
\* known (url, program) returns None and the except branch calls
\* update_stats("faculty_url_failure"); otherwise the pair is registered, the
\* url is returned and update_stats("faculty_url_success") is called
ProgramLeavesLock(t, after) ==
    /\ pc[t] = "locked"
    /\ Kind(t) = "program"
    /\ faculty_url_lock' = after
    /\ LET item == loc[t].item
           url == loc[t].url
       IN  IF loc[t].seen
           THEN /\ Calls(t, loc[t], "faculty_url_failure", item.program)
                /\ hist' = Rejected(hist, url, item.program)
                /\ UNCHANGED processed_faculty_urls
           ELSE /\ processed_faculty_urls' =
                       Register(processed_faculty_urls, url, item.program)
                /\ Calls(t, loc[t], "faculty_url_success", item.program)
                /\ hist' = Claimed(hist, url, item.program)
    /\ UNCHANGED <<impl, csv_lock, csv_file, num_threads, active, expired, program_queue,
                   directory_queue, profile_queue, result_queue, stats, run_pc, csv_pc,
                   csv_rows, driver, stats_lock, stats_file, stats_pc>>

\* faulty variant: update_stats is called inside the with block of
\* faculty_url_lock
ProgramCallsInside(t) == ProgramLeavesLock(t, t)

ProgramUnlockCalls(t) == ProgramLeavesLock(t, NoThread)

\* the directory loop after one element: the next element is claimed, or the
\* contacts are returned and process() puts each of them on profile_queue
NextElement(t, contacts, h) ==
    LET rest == Tail(loc[t].todo)
    IN  IF rest # <<>>
        THEN /\ pc' = [pc EXCEPT ![t] = "claim"]
             /\ loc' = [loc EXCEPT ![t] =
                           [NoLocal EXCEPT !.item = loc[t].item, !.todo = rest,
                                           !.url = Head(rest).href,
                                           !.contacts = contacts]]
             /\ hist' = h
             /\ UNCHANGED profile_queue
        ELSE /\ pc' = [pc EXCEPT ![t] = "check"]
             /\ loc' = [loc EXCEPT ![t] = NoLocal]
             /\ hist' = Stubbed(h, contacts)
             /\ profile_queue' = profile_queue \o contacts

\* scrape_directory_page leaves faculty_url_lock for one element: a known
\* (url, program) is skipped; otherwise the pair is registered, the contact is
\* appended and update_stats("personnel_found") is called
DirectoryUnlockCalls(t) ==
    /\ pc[t] = "locked"
    /\ Kind(t) = "directory"
    /\ faculty_url_lock' = NoThread
    /\ LET item == loc[t].item
           e == Head(loc[t].todo)
       IN  IF loc[t].seen
           THEN /\ NextElement(t, loc[t].contacts, Rejected(hist, e.href, item.program))
                /\ UNCHANGED processed_faculty_urls
           ELSE /\ processed_faculty_urls' =
                       Register(processed_faculty_urls, e.href, item.program)
                /\ Calls(t, [loc[t] EXCEPT !.contacts =
                                Append(@, ContactInfo(e.text, item.college, item.program,
                                                      e.href))],
                         "personnel_found", item.program)
                /\ hist' = Claimed(hist, e.href, item.program)
                /\ UNCHANGED profile_queue
    /\ UNCHANGED <<impl, csv_lock, csv_file, num_threads, active, expired, program_queue,
                   directory_queue, result_queue, stats, run_pc, csv_pc, csv_rows, driver,
                   stats_lock, stats_file, stats_pc>>

\* the profile page is rendered and scanned: with an email the contact is put
\* on result_queue and update_stats("complete_record") is called; without one
\* the except branch calls update_stats("incomplete_record")
ProfileFetchedCalls(t) ==
    /\ pc[t] = "fetch"
    /\ Kind(t) = "profile"
    /\ \E page \in ProfilePages :
          LET updated_contact == scrape_profile_page(page, loc[t].item)
          IN  /\ IF HasEmail(updated_contact)
                 THEN /\ result_queue' = Append(result_queue, updated_contact)
                      /\ Calls(t, loc[t], "complete_record", updated_contact.department)
                 ELSE /\ Calls(t, loc[t], "incomplete_record", loc[t].item.department)
                      /\ UNCHANGED result_queue
              /\ hist' = [hist EXCEPT !.emails = @ + Len(page.emails)]
    /\ UNCHANGED <<impl, csv_lock, csv_file, num_threads, active, expired, program_queue,
                   directory_queue, profile_queue, processed_faculty_urls,
                   faculty_url_lock, stats, run_pc, csv_pc, csv_rows, driver, stats_lock,
                   stats_file, stats_pc>>

\* update_stats: the branch of the call assigns its counters, the with block
\* of stats_lock is left and the caller goes on: the program loop to the
\* fetch, or to directory_queue.put and the next iteration; the directory loop
\* to the next element; the other callers to the next iteration
UpdateReturn(t) ==
    /\ pc[t] = "stats_locked"
    /\ LET call == loc[t].call
           updated == update_stats(loc[t].read, call.stat_type, call.program_name)
       IN  /\ stats' = Assigned(stats, loc[t].read, updated)
           /\ IF call.stat_type = "program"
              THEN /\ pc' = [pc EXCEPT ![t] = "fetch"]
                   /\ loc' = [loc EXCEPT ![t] = [NoLocal EXCEPT !.item = loc[t].item]]
                   /\ hist' = Recorded(hist, call)
                   /\ UNCHANGED <<directory_queue, profile_queue>>
              ELSE IF call.stat_type = "faculty_url_success"
              THEN /\ directory_queue' =
                          Append(directory_queue, DirectoryItem(loc[t].item, loc[t].url))
                   /\ pc' = [pc EXCEPT ![t] = "check"]
                   /\ loc' = [loc EXCEPT ![t] = NoLocal]
                   /\ hist' = Recorded(hist, call)
                   /\ UNCHANGED profile_queue
              ELSE IF call.stat_type = "personnel_found"
              THEN /\ NextElement(t, loc[t].contacts, Recorded(hist, call))
                   /\ UNCHANGED directory_queue
              ELSE /\ pc' = [pc EXCEPT ![t] = "check"]
                   /\ loc' = [loc EXCEPT ![t] = NoLocal]
                   /\ hist' = Recorded(hist, call)
                   /\ UNCHANGED <<directory_queue, profile_queue>>
    /\ stats_lock' = IF stats_lock = t THEN NoThread ELSE stats_lock
    /\ UNCHANGED <<impl, csv_lock, csv_file, num_threads, active, expired, program_queue,
                   result_queue, processed_faculty_urls, faculty_url_lock, run_pc, csv_pc,
                   csv_rows, driver, stats_file, stats_pc>>

\* csv_worker: result_queue.get(timeout=1).  On None the packaged loop breaks
\* and main.py's raises and goes to the next iteration; with a contact the
\* writer goes to the with block of csv_lock
CsvTake ==
    /\ csv_pc = "get"
    /\ result_queue # <<>>
    /\ result_queue' = Tail(result_queue)
    /\ LET contact == Head(result_queue)
       IN  IF contact = None
           THEN /\ csv_pc' = IF impl = "packaged" THEN "done" ELSE "check"
                /\ csv_file' = IF impl = "packaged" THEN close(csv_file) ELSE csv_file
                /\ UNCHANGED loc
           ELSE /\ csv_pc' = "csv_lock"
                /\ loc' = [loc EXCEPT ![CsvThread] = [NoLocal EXCEPT !.item = contact]]
                /\ UNCHANGED csv_file
    /\ UNCHANGED <<impl, csv_lock, num_threads, active, expired, program_queue,
                   directory_queue, profile_queue, processed_faculty_urls,
                   faculty_url_lock, stats, run_pc, pc, csv_rows, hist, driver, stats_lock,
                   stats_file, stats_pc>>

\* csv_worker: `with self.csv_lock:` is entered
CsvLock ==
    /\ csv_pc = "csv_lock"
    /\ csv_lock = NoThread
    /\ csv_lock' = CsvThread
    /\ csv_pc' = "csv_locked"
    /\ UNCHANGED <<impl, csv_file, num_threads, active, expired, program_queue,
                   directory_queue, profile_queue, result_queue, processed_faculty_urls,
                   faculty_url_lock, stats, run_pc, pc, loc, csv_rows, hist, driver,
                   stats_lock, stats_file, stats_pc>>

\* csv_worker: writer.writerow(contact), csvfile.flush(), and the with block
\* is left
CsvWrite ==
    /\ csv_pc = "csv_locked"
    /\ csv_rows' = Append(csv_rows, loc[CsvThread].item)
    /\ csv_file' = flush(writerow(csv_file, loc[CsvThread].item))
    /\ csv_lock' = NoThread
    /\ loc' = [loc EXCEPT ![CsvThread] = NoLocal]
    /\ csv_pc' = "check"
    /\ UNCHANGED <<impl, num_threads, active, expired, program_queue, directory_queue,
                   profile_queue, result_queue, processed_faculty_urls, faculty_url_lock,
                   stats, run_pc, pc, hist, driver, stats_lock, stats_file, stats_pc>>

\* run() is in its wait loop with every thread started: the two program items
\* of a discovery, of the programs names, are on program_queue, and main.py's
\* stats_thread runs
LocksItems(names) ==
    [i \in 1 .. 2 |->
        [kind |-> "program", college |-> <<"CCS", "COS">>[i], program |-> names[i],
         url |-> urljoin(BaseUrl, [abs |-> FALSE, path |-> "/faculty"])]]

LocksInit ==
    /\ impl \in Impls
    /\ num_threads = 1
    /\ active = TRUE
    /\ expired = FALSE
    /\ \E first \in {"", "Biology"} : program_queue = LocksItems(<<first, "Biology">>)
    /\ directory_queue = <<>>
    /\ profile_queue = <<>>
    /\ result_queue = <<>>
    /\ processed_faculty_urls = EmptyDict
    /\ faculty_url_lock = NoThread
    /\ stats = update_stats(update_stats(InitStats, "college", NoneName),
                            "college", NoneName)
    /\ run_pc = "wait"
    /\ pc = [t \in AllThreadsOf(1) |-> "check"]
    /\ loc = [t \in AllThreadsOf(1) \cup {StatsThread, CsvThread} |-> NoLocal]
    /\ csv_pc = "check"
    /\ csv_rows = <<>>
    /\ csv_file = csv_open(NoCsvFile)
    /\ csv_lock = NoThread
    /\ driver = [t \in AllThreadsOf(1) |->
                    IF Kind(t) = "profile" THEN init_selenium_driver(t) ELSE NoDriver]
    /\ stats_lock = NoThread
    /\ stats_file = OneRunFile
    /\ stats_pc = IF impl = "main" THEN "check" ELSE "unstarted"
    /\ hist = InitHist

\* the directory pages of this run: a failed fetch, and cards of one member
\* and of two, whose anchors lead to profile pages
LocksElements ==
    [i \in 1 .. 2 |->
        [anchor |-> TRUE, text |-> "Jane Doe",
         href |-> [abs |-> TRUE,
                   path |-> <<"/faculty/jane-doe", "/faculty/john-roe">>[i]]]]
LocksPages == {ErrorPage} \cup {CardsPage(SubSeq(LocksElements, 1, n)) : n \in 1 .. 2}

LocksNext ==
    \/ \E t \in StageThreads : LoopTest(t)
    \/ \E t \in ProgramThreads : ProgramGetCalls(t)
    \/ \E t \in ProgramThreads : ProgramFetchedCalls(t)
    \/ \E t \in ProgramThreads \cup DirectoryThreads : LockAndTest(t)
    \/ \E t \in ProgramThreads : ProgramUnlockCalls(t)
    \/ \E t \in DirectoryThreads : DirectoryGet(t)
    \/ \E t \in DirectoryThreads : DirectoryFetched(t, LocksPages)
    \/ \E t \in DirectoryThreads : DirectoryUnlockCalls(t)
    \/ \E t \in ProfileThreads : ProfileGet(t)
    \/ \E t \in ProfileThreads : ProfileFetchedCalls(t)
    \/ \E t \in StageThreads : UpdateEnter(t)
    \/ \E t \in StageThreads : UpdateReturn(t)
    \/ CsvLoopTest
    \/ CsvTake
    \/ CsvLock
    \/ CsvWrite
    \/ StatsLoopTest
    \/ StatsWorkerLock
    \/ StatsWorkerWrite

LocksSpec == LocksInit /\ [][LocksNext]_vars

\* ===================================================================== claims
ClaimCount(h, url, program_name) == DictGet(h.claimed, <<url, program_name>>, 0)

\* a thread leaves faculty_url_lock in this step
Unlocks(t) == pc[t] = "locked" /\ pc'[t] # "locked"

\* the (url, program) pair a thread presents to the deduplication check
PairOf(t) == <<loc[t].url, loc[t].item.program>>

\* C1: under any interleaving of program and directory workers, the
\* check-and-register under faculty_url_lock succeeds at most once per
\* (url, program) pair, and an attempt succeeds exactly when the pair is not
\* yet registered: also for a url already registered for other programs.
C1_AtMostOncePerPair ==
    \A k \in DOMAIN hist.claimed : hist.claimed[k] <= 1

C1_SucceedsIffNew ==
    \A t \in ProgramThreads \cup DirectoryThreads :
        Unlocks(t) =>
            LET url == loc[t].url
                program_name == loc[t].item.program
                known == AlreadyProcessed(processed_faculty_urls, url, program_name)
            IN  /\ ~known => /\ ClaimCount(hist', url, program_name) = 1
                             /\ AlreadyProcessed(processed_faculty_urls', url, program_name)
                /\ known => /\ hist'.claimed = hist.claimed
                            /\ processed_faculty_urls' = processed_faculty_urls

C1_ClaimOncePerPair == [] C1_AtMostOncePerPair /\ [][C1_SucceedsIffNew]_vars

\* C1 witness: a url registered for two programs, a pair of it registered
\* once already, and a program worker holding the lock for that pair while a
\* directory worker waits for the lock with the same pair
C1_Witness ==
    \E t1 \in ProgramThreads, t2 \in DirectoryThreads :
        /\ pc[t1] = "locked"
        /\ pc[t2] = "claim"
        /\ PairOf(t1) = PairOf(t2)
        /\ ClaimCount(hist, loc[t1].url, loc[t1].item.program) = 1
        /\ loc[t1].seen

\* ------------------------------------------------------------------- shutdown
IsContact(x) == x # None /\ x.kind = "contact"

Contacts(q) == {i \in DOMAIN q : IsContact(q[i])}

Exited(t) == pc[t] = "done"

\* C2: no record placed on result_queue is lost: once the CSV writer has
\* ended, no contact is on result_queue waiting for a row that is never
\* written.
C2_NoRecordLost ==
    csv_pc = "done" => Contacts(result_queue) = {}

\* C3: in the packaged run, once active is cleared every stage worker ends:
\* no run comes to rest with a started worker that has not left its loop.
C3_PackagedWorkersExit ==
    (impl = "packaged" /\ ~active /\ ~ENABLED Next) =>
        \A t \in StageThreads : Exited(t)

\* C4: in main.py, the finally clause of run() puts exactly one None per
\* thread of a stage on that stage's queue, and from then on every stage
\* worker leaves its loop, wherever it was when shutdown began.
C4_OneSentinelPerThread ==
    (impl = "main" /\ run_pc = "signal" /\ run_pc' = "join") =>
        /\ program_queue' = program_queue \o [i \in 1 .. Cardinality(ProgramThreads) |-> None]
        /\ directory_queue' = directory_queue \o [i \in 1 .. Cardinality(DirectoryThreads) |-> None]
        /\ profile_queue' = profile_queue \o [i \in 1 .. Cardinality(ProfileThreads) |-> None]

C4_MainWorkersExit ==
    /\ [][C4_OneSentinelPerThread]_vars
    /\ (impl = "main" /\ run_pc = "join") ~> (\A t \in StageThreads : Exited(t))

\* C4 witness: the sentinels are on the queues while one worker still waits in
\* get() and another is busy with an item
C4_Witness ==
    /\ impl = "main"
    /\ run_pc = "join"
    /\ \E t1, t2 \in StageThreads :
          /\ pc[t1] = "get"
          /\ InputQueue(Kind(t1)) = Sentinels(1)
          /\ pc[t2] = "fetch"

\* C5: once the deadline has passed no stage worker takes a new item from
\* its queue.
C5_StartsItem(t) ==
    /\ pc[t] = "get"
    /\ pc'[t] \in {"fetch", "claim", "locked"}

C5_NoDequeueAfterDeadline ==
    [][expired => \A t \in StageThreads : ~C5_StartsItem(t)]_vars

\* ------------------------------------------------------------- item failures
HoldsItem(position) == position \in {"fetch", "claim", "locked"}

OutputQueue(kind) ==
    IF kind = "program" THEN directory_queue
    ELSE IF kind = "directory" THEN profile_queue
    ELSE result_queue

\* a worker is through with its item in this step and has passed nothing on
C6_FailsItem(t) ==
    /\ HoldsItem(pc[t])
    /\ ~HoldsItem(pc'[t])
    /\ OutputQueue(Kind(t))' = OutputQueue(Kind(t))

\* C6: a worker whose item fails (the fetch fails, the page lacks the
\* structure, the pair is already registered, nothing is extracted) is
\* back at the test of its loop, not ended, and the run goes on as before.
C6_FailureKeepsWorker ==
    [][\A t \in StageThreads :
          C6_FailsItem(t) => /\ pc'[t] = "check"
                             /\ active' = active
                             /\ run_pc' = run_pc
                             /\ \A u \in StageThreads \ {t} : pc'[u] = pc[u]]_vars

\* C6 witness: the only program worker is busy with its second item after its
\* first one failed
C6_Witness ==
    /\ num_threads = 1
    /\ stats.programs_visited = 2
    /\ stats.programs_without_faculty_url # EmptyDict
    /\ stats.programs_with_faculty_url = EmptyDict
    /\ pc[<<"program", 0>>] = "fetch"

\* a program worker leaves the lock with its pair turned down / registered
RejectedStep(t) ==
    /\ Unlocks(t)
    /\ ClaimCount(hist', loc[t].url, loc[t].item.program)
           = ClaimCount(hist, loc[t].url, loc[t].item.program)

ClaimedStep(t) ==
    /\ Unlocks(t)
    /\ ClaimCount(hist', loc[t].url, loc[t].item.program)
           = ClaimCount(hist, loc[t].url, loc[t].item.program) + 1

\* C7: a program item whose faculty url is found but already registered for
\* its program is skipped: nothing is put on directory_queue and no failure
\* is recorded for the program.
C7_DuplicateIsNoFailure ==
    [][\A t \in ProgramThreads :
          RejectedStep(t) =>
              /\ directory_queue' = directory_queue
              /\ stats'.programs_without_faculty_url = stats.programs_without_faculty_url]_vars

\* a program worker is through with a page that has no qualifying anchor
NoAnchorStep(t) ==
    /\ t \in ProgramThreads
    /\ pc[t] = "fetch"
    /\ pc'[t] \notin {"fetch", "claim"}

\* C8: a program item whose page has no qualifying faculty anchor puts nothing
\* on directory_queue, has the failure recorded for its program (and nothing
\* else recorded), and the worker goes on with its loop.
C8_NoAnchorRecordsFailure ==
    [][\A t \in ProgramThreads :
          NoAnchorStep(t) =>
              /\ directory_queue' = directory_queue
              /\ loc[t].item.program \in DOMAIN stats'.programs_without_faculty_url
              /\ stats' = [stats EXCEPT !.programs_without_faculty_url =
                                            DictPut(@, loc[t].item.program, TRUE)]
              /\ pc'[t] = "check"]_vars

\* C9: a program item whose faculty url is found and registered puts exactly
\* one item with its college, its program and that url on directory_queue and
\* has the success recorded for its program; nothing is put on
\* directory_queue in any other way.
C9_OneDirectoryItemPerClaim ==
    [][/\ \A t \in ProgramThreads :
             ClaimedStep(t) =>
                 /\ directory_queue' =
                        Append(directory_queue,
                               [kind |-> "directory", college |-> loc[t].item.college,
                                program |-> loc[t].item.program, url |-> loc[t].url])
                 /\ loc[t].item.program \in DOMAIN stats'.programs_with_faculty_url
       /\ Len(directory_queue') > Len(directory_queue) =>
             \E t \in ProgramThreads : ClaimedStep(t)]_vars

\* C10: every contact on result_queue and every row written has an email.
C10_ResultsHaveEmail ==
    /\ \A i \in Contacts(result_queue) : result_queue[i].email \notin {"", NoneName}
    /\ \A i \in DOMAIN csv_rows : csv_rows[i].email \notin {"", NoneName}

\* C10 witness: one contact was written with its email, another one had none
\* and was counted as incomplete, and nothing waits on result_queue
C10_Witness ==
    /\ csv_rows # <<>>
    /\ stats.program_incomplete_records # EmptyDict
    /\ result_queue = <<>>

\* ------------------------------------------------------------ profile records
\* a profile worker is through with its contact in this step
ProfileStep(t) ==
    /\ t \in ProfileThreads
    /\ pc[t] = "fetch"
    /\ pc'[t] # "fetch"

\* the record was put on result_queue in this step
PutsResult == Len(result_queue') = Len(result_queue) + 1

\* C11: for every contact a profile worker processes, exactly one of
\* complete_record and incomplete_record is counted for the contact's
\* department, once: complete_record if and only if the record was put on
\* result_queue with its email, incomplete_record otherwise.
C11_OneRecordStatPerContact ==
    [][\A t \in ProfileThreads :
          ProfileStep(t) =>
              LET d == loc[t].item.department
                  complete == DictGet(stats.program_complete_records, d, 0)
                  incomplete == DictGet(stats.program_incomplete_records, d, 0)
                  complete_after == DictGet(stats'.program_complete_records, d, 0)
                  incomplete_after == DictGet(stats'.program_incomplete_records, d, 0)
              IN  IF PutsResult
                  THEN /\ result_queue'[Len(result_queue')].email \in Emails
                       /\ complete_after = complete + 1
                       /\ incomplete_after = incomplete
                  ELSE /\ complete_after = complete
                       /\ incomplete_after = incomplete + 1]_vars

RECURSIVE SumOver(_, _)
SumOver(d, keys) ==
    IF keys = {} THEN 0
    ELSE LET k == CHOOSE x \in keys : TRUE
         IN  d[k] + SumOver(d, keys \ {k})

\* the records put on result_queue so far: those written and those waiting
ResultsEnqueued == Len(csv_rows) + Cardinality(Contacts(result_queue))

ProfileIdle == \A t \in ProfileThreads : ~HoldsItem(pc[t])

\* C12: total_emails_recorded is the sum of program_complete_records over
\* the programs, and with every profile worker idle it is the number of
\* records put on result_queue.
C12_EmailTotals ==
    /\ stats.total_emails_recorded =
           SumOver(stats.program_complete_records, DOMAIN stats.program_complete_records)
    /\ ProfileIdle => stats.total_emails_recorded = ResultsEnqueued

\* ------------------------------------------------------------------ discovery
Discovered == run_pc # "discover" /\ hist.root # None

\* C14 as stated: after a successful discovery of a root page listing C
\* colleges and P program links, program_queue holds P items and
\* colleges_count is C.
C14_ItemPerLink ==
    (run_pc = "start" /\ Discovered /\ hist.root.menus_ok) =>
        /\ Len(program_queue) = hist.root.links
        /\ stats.colleges_count = hist.root.colleges

\* C14: after a successful discovery program_queue holds one program item
\* for every program link with a non-empty href, each with an absolute url,
\* and colleges_count is the number of colleges that have a program menu.
C14_ItemPerLinkWithHref ==
    (run_pc = "start" /\ Discovered /\ hist.root.menus_ok) =>
        /\ Len(program_queue) = hist.root.with_href
        /\ \A i \in DOMAIN program_queue :
              /\ program_queue[i] # None
              /\ program_queue[i].kind = "program"
              /\ program_queue[i].url.abs
        /\ stats.colleges_count = hist.root.with_menu

\* C14 witness: two colleges of which one has a program menu, two links of
\* which one has an href, one item
C14_Witness ==
    /\ run_pc = "start"
    /\ Discovered
    /\ hist.root.menus_ok
    /\ hist.root.colleges = 2
    /\ hist.root.with_menu = 1
    /\ hist.root.links = 2
    /\ hist.root.with_href = 1
    /\ Len(program_queue) = 1

\* C15: when a menu level of the root page is missing, discovery puts nothing
\* on program_queue and counts no college; discovery is not run again, and
\* run() goes on to start its threads.
C15_NothingDiscovered ==
    (Discovered /\ ~hist.root.menus_ok) =>
        /\ stats.colleges_count = 0
        /\ stats.programs_visited = 0
        /\ program_queue \in {<<>>, Sentinels(Cardinality(ProgramThreads))}
        /\ run_pc = "start" => ENABLED StartThreads

C15_FailedDiscoveryGoesOn ==
    /\ [] C15_NothingDiscovered
    /\ [][run_pc # "discover" => run_pc' # "discover"]_vars

\* C15 witness: after a discovery that found no menu the threads run and the
\* program worker waits on the empty queue
C15_Witness ==
    /\ Discovered
    /\ ~hist.root.menus_ok
    /\ hist.root.links = 1
    /\ run_pc = "wait"
    /\ pc[<<"program", 0>>] = "get"
    /\ program_queue = <<>>

\* ------------------------------------------------------------ contact stubs
StubPair(contact) == <<contact.profile_url, contact.department>>

\* the contacts of a pair that directory workers hold (l) or have put on
\* profile_queue (h)
StubsOf(h, l, k) ==
    DictGet(h.stubs, k, 0)
        + Cardinality({ti \in UNION {{<<t, i>> : i \in DOMAIN l[t].contacts} :
                                        t \in DirectoryThreads} :
                          StubPair(l[ti[1]].contacts[ti[2]]) = k})

StubPairs ==
    DOMAIN hist.stubs
        \cup UNION {{StubPair(loc[t].contacts[i]) : i \in DOMAIN loc[t].contacts} :
                       t \in DirectoryThreads}

C16_AtMostOneStub ==
    \A k \in StubPairs \cup DOMAIN hist.claimed : StubsOf(hist, loc, k) <= 1

C16_StubIffClaimed ==
    \A t \in DirectoryThreads :
        /\ RejectedStep(t) =>
              StubsOf(hist', loc', PairOf(t)) = StubsOf(hist, loc, PairOf(t))
        /\ ClaimedStep(t) =>
              StubsOf(hist', loc', PairOf(t)) = StubsOf(hist, loc, PairOf(t)) + 1

\* C16: under any interleaving of the directory workers at most one contact
\* is put on profile_queue for a (profile url, program) pair, and none for a
\* pair found registered.
C16_OneStubPerPair == [] C16_AtMostOneStub /\ [][C16_StubIffClaimed]_vars

\* C16 witness: two directory workers met the same (profile url, program)
\* pair: one contact was put on profile_queue for it and the other worker
\* found it registered
C16_Witness ==
    \E k \in DOMAIN hist.stubs :
        /\ hist.stubs[k] = 1
        /\ k \in hist.rejected
        /\ ~k[1].abs
        /\ directory_queue = <<>>

\* ------------------------------------------------------------------ end to end
NoItems(q) == \A i \in DOMAIN q : q[i] = None

\* every item and record produced so far has been processed
AllProcessed ==
    /\ run_pc # "discover"
    /\ NoItems(program_queue)
    /\ NoItems(directory_queue)
    /\ NoItems(profile_queue)
    /\ NoItems(result_queue)
    /\ \A t \in StageThreads : ~HoldsItem(pc[t])

\* the site seen by the run: one college with one program link, whose
\* directory page listed two contacts, of whom one showed an email
OneProgramTwoContacts(program_name) ==
    /\ hist.root # None
    /\ hist.root.menus_ok
    /\ hist.root.colleges = 1
    /\ hist.root.links = 1
    /\ Cardinality(DOMAIN hist.stubs) = 2
    /\ \A k \in DOMAIN hist.stubs : k[2] = program_name /\ hist.stubs[k] = 1
    /\ hist.emails = 1

\* C13: on a site of one college and one program whose directory page lists
\* two contacts of whom exactly one shows an email, a run that has processed
\* every item has written one row, total_emails_recorded is 1, the program
\* is in programs_with_faculty_url, and it has one complete and one
\* incomplete record.
C13_EndToEnd ==
    \A program_name \in ProgNames :
        (AllProcessed /\ OneProgramTwoContacts(program_name)) =>
            /\ Len(csv_rows) = 1
            /\ stats.total_emails_recorded = 1
            /\ program_name \in DOMAIN stats.programs_with_faculty_url
            /\ DictGet(stats.program_complete_records, program_name, 0) = 1
            /\ DictGet(stats.program_incomplete_records, program_name, 0) = 1

\* ------------------------------------------------------------------ C17
\* a step that takes an item off result_queue or adds a row to the file
Dequeues ==
    \/ Len(result_queue') < Len(result_queue)
    \/ csv_rows' # csv_rows

\* a step that puts an item on result_queue
Enqueues ==
    /\ Len(result_queue') > Len(result_queue)
    /\ result_queue' = Append(result_queue, result_queue'[Len(result_queue')])

\* C17: the file receives exactly one row per record taken off result_queue,
\* in the order the records were put on it: every step that takes an item
\* takes the oldest one and, when it is a record, appends it as the last row
\* in the same step (written and flushed before the next get); rows are
\* added in no other way, and the queue changes only by a put at its tail
\* or a get at its head.
C17_RowPerRecordInOrder ==
    [][/\ Dequeues =>
             /\ result_queue # <<>>
             /\ result_queue' = Tail(result_queue)
             /\ csv_rows' = IF Head(result_queue) = None
                             THEN csv_rows
                             ELSE Append(csv_rows, Head(result_queue))
       /\ (result_queue' # result_queue) => (Dequeues \/ Enqueues)]_vars

\* two different records have been written, one after the other, and nothing
\* is left on the queue
C17_Witness ==
    /\ Len(csv_rows) = 2
    /\ csv_rows[1] # csv_rows[2]
    /\ result_queue = <<>>

\* ------------------------------------------------------------------ C18
\* run() leaves its wait loop: the shutdown of the finally clause begins
BeginsShutdown == run_pc = "wait" /\ run_pc' # "wait"

\* all three stage queues are empty and no started thread is alive
Exhausted ==
    /\ program_queue = <<>>
    /\ directory_queue = <<>>
    /\ profile_queue = <<>>
    /\ \A t \in StageThreads : ~is_alive(t)
    /\ ~csv_is_alive

\* C18: the orchestrator begins shutdown only when the deadline has expired,
\* or all three stage queues are empty and no started thread is alive, or a
\* KeyboardInterrupt was received; and active is cleared only by a shutdown
\* that has begun.
C18_ShutdownOnlyWhenDue ==
    [][/\ BeginsShutdown => (expired \/ Exhausted \/ run_pc' = "except")
       /\ (active /\ ~active') => run_pc \in {"finally", "except"}]_vars

\* the deadline has ended the wait loop while a worker still held an item
C18_Witness ==
    /\ run_pc = "finally"
    /\ expired
    /\ active
    /\ \E t \in StageThreads : HoldsItem(pc[t])

\* ------------------------------------------------------------------ C19
\* the steps of run()'s shutdown, by the place they start from: active is
\* cleared, main.py puts its sentinels, the joins run out, run() returns
ShutdownStep ==
    /\ run_pc \in {"finally", "except"} =>
          /\ ~active'
          /\ run_pc' = IF impl = "main" THEN "signal" ELSE "join"
    /\ run_pc = "signal" =>
          /\ run_pc' = "join"
          /\ Len(program_queue') = Len(program_queue) + Cardinality(ProgramThreads)
          /\ Len(directory_queue') = Len(directory_queue) + Cardinality(DirectoryThreads)
          /\ Len(profile_queue') = Len(profile_queue) + Cardinality(ProfileThreads)
    /\ run_pc = "join" => run_pc' = "done"

\* C19: a KeyboardInterrupt in the wait loop is followed by the same shutdown
\* as the end of the wait loop at the deadline: from the except clause as
\* from the finally clause the next step of run() clears active, the threads
\* are then signalled and joined, and run() comes to its end with active
\* cleared whatever the workers do.
C19_InterruptShutsDownAlike ==
    /\ [][(run_pc' # run_pc /\ run_pc \notin {"discover", "start", "wait"})
              => ShutdownStep]_vars
    /\ (run_pc = "except") ~> (run_pc = "done" /\ ~active)

\* run() has ended after an interrupt: the deadline never passed, and a
\* worker is still holding an item
C19_Witness ==
    /\ run_pc = "done"
    /\ ~expired
    /\ ~active
    /\ \E t \in StageThreads : HoldsItem(pc[t])

\* ------------------------------------------------------------------ C20
\* C20: in both implementations every profile worker renders pages only
\* with the handle it created itself, which is open while the worker holds a
\* contact, and a profile worker that has left its loop and ended has
\* released that handle.
C20_OwnHandleReleased ==
    \A t \in ProfileThreads :
        /\ pc[t] = "fetch" => driver[t] = init_selenium_driver(t)
        /\ pc[t] = "done" => driver[t] = quit(init_selenium_driver(t))

\* ------------------------------------------------------------------ C21
\* a stage worker is fetching a page (plain or rendered)
Fetching(t) == pc[t] = "fetch"

\* stats_worker is reading or writing the statistics file
StatsFileIO == stats_pc \in {"file_read", "file_write"}

HoldsALock(t) == faculty_url_lock = t \/ stats_lock = t

\* C21: no thread performs a blocking I/O operation (a page fetch, a rendered
\* page fetch, a file read or write) while it holds faculty_url_lock or
\* stats_lock.
C21_NoIOUnderLock ==
    /\ \A t \in StageThreads : Fetching(t) => ~HoldsALock(t)
    /\ StatsFileIO => ~HoldsALock(StatsThread)

\* ------------------------------------------------------------------ C22
\* the update_stats calls of one kind begun so far, and those for one program
CallsOfKind(stat_type) ==
    CallsBegun(hist.calls, {k \in DOMAIN hist.calls : k[1] = stat_type})

CallsFor(stat_type, program_name) ==
    DictGet(hist.calls, <<stat_type, program_name>>, 0)

\* no update_stats call is under way
NoCallUnderWay == \A t \in StageThreads : pc[t] = "check"

\* C22: under any interleaving of update_stats calls from workers of all
\* stages no update is lost: once the calls have returned, each counter
\* equals the number of update calls of its kind (programs_visited the
\* number of "program" calls, total_emails_recorded the number of
\* "complete_record" calls, each per-program count the number of calls for
\* that program, and so on).
C22_NoUpdateLost ==
    NoCallUnderWay =>
        /\ stats.programs_visited = CallsOfKind("program")
        /\ stats.total_pages_visited =
               1 + CallsOfKind("program") + CallsOfKind("faculty_url_success")
        /\ stats.total_emails_recorded = CallsOfKind("complete_record")
        /\ \A p \in StatsNames :
              /\ p \in DOMAIN stats.programs_with_faculty_url
                    <=> CallsFor("faculty_url_success", p) > 0
              /\ p \in DOMAIN stats.programs_without_faculty_url
                    <=> CallsFor("faculty_url_failure", p) > 0
              /\ DictGet(stats.program_personnel_count, p, 0)
                    = CallsFor("personnel_found", p)
              /\ DictGet(stats.program_complete_records, p, 0)
                    = CallsFor("complete_record", p)
              /\ DictGet(stats.program_incomplete_records, p, 0)
                    = CallsFor("incomplete_record", p)

\* ------------------------------------------------------------------ C23
\* the packaged run has written its statistics: stats_worker has returned
\* (run() returns right after it)
StatsWritten == impl = "packaged" /\ (stats_pc = "done" \/ run_pc = "done")

\* the statistics file held a list when the run found it
HeldList == hist.stats_file.kind = "json" /\ hist.stats_file.list

\* C23: at the end of a run of the packaged orchestrator the statistics file
\* holds the list it held before the run with exactly one new snapshot, of
\* this run, appended at its end: every earlier snapshot is still there,
\* unchanged and in order; until then the run leaves the file as it found it.
C23_SnapshotAppended ==
    (impl = "packaged" /\ HeldList) =>
        IF StatsWritten
        THEN LET before == hist.stats_file.items
             IN  /\ stats_file.kind = "json"
                 /\ stats_file.list
                 /\ Len(stats_file.items) = Len(before) + 1
                 /\ SubSeq(stats_file.items, 1, Len(before)) = before
                 /\ stats_file.items[Len(before) + 1].num_threads = num_threads
        ELSE stats_file = hist.stats_file

\* a file of two earlier snapshots has got its third, while workers were
\* still updating the statistics
C23_Witness ==
    /\ StatsWritten
    /\ Len(hist.stats_file.items) = 2
    /\ Len(stats_file.items) = 3
    /\ stats_file.items[3] # to_dict(stats, num_threads)

\* ------------------------------------------------------------------ C24
\* an attempt on a pair that was claimed before is rejected and changes
\* neither the index nor the claims
RejectsClaimed(t) ==
    (Unlocks(t) /\ ClaimCount(hist, loc[t].url, loc[t].item.program) >= 1) =>
        /\ PairOf(t) \in hist'.rejected
        /\ hist'.claimed = hist.claimed
        /\ processed_faculty_urls' = processed_faculty_urls

\* nothing registered is ever taken out of processed_faculty_urls
IndexKept ==
    \A url \in DOMAIN processed_faculty_urls :
        /\ url \in DOMAIN processed_faculty_urls'
        /\ processed_faculty_urls[url] \subseteq processed_faculty_urls'[url]

\* C24: after a successful claim of a (url, program) pair every later
\* attempt with the same pair is rejected for the rest of the run (the pair
\* stays registered, registrations are never taken back), and a rejected
\* attempt leaves processed_faculty_urls unchanged.
C24_ClaimedStaysClaimed ==
    /\ [](\A k \in DOMAIN hist.claimed :
             AlreadyProcessed(processed_faculty_urls, k[1], k[2]))
    /\ [][IndexKept /\ \A t \in ProgramThreads \cup DirectoryThreads : RejectsClaimed(t)]_vars

\* a pair claimed once has since been presented again and rejected, its url
\* being registered for a second program as well
C24_Witness ==
    \E k \in hist.rejected :
        /\ DictGet(hist.claimed, k, 0) = 1
        /\ Cardinality(processed_faculty_urls[k[1]]) = 2

\* ------------------------------------------------------------------ C25
\* the None items on a queue
Nones(q) == Cardinality({i \in DOMAIN q : q[i] = None})

StageNones == Nones(program_queue) + Nones(directory_queue) + Nones(profile_queue)

\* a stage worker takes a None off its queue in this step
TakesNone(t) ==
    /\ pc[t] = "get"
    /\ pc'[t] # "get"
    /\ InputQueue(Kind(t)) # <<>>
    /\ Head(InputQueue(Kind(t))) = None

\* the steps of main.py's shutdown, each in its place
MainShutdownStep ==
    /\ active' # active =>
          /\ run_pc \in {"finally", "except"}
          /\ ~active'
          /\ run_pc' = "signal"
          /\ StageNones = 0
    /\ StageNones' > StageNones =>
          /\ run_pc = "signal"
          /\ ~active
          /\ run_pc' = "join"
          /\ Nones(result_queue') = 0
    /\ Nones(result_queue') > Nones(result_queue) =>
          /\ run_pc = "join"
          /\ ~active
          /\ run_pc' = "done"
    /\ \A t \in StageThreads : TakesNone(t) => ~active

\* C25: in main.py's run() the shutdown steps come in this order: active is
\* cleared, then the None items of the stages are put, then the threads are
\* joined, and only then the None for the CSV writer is put on result_queue;
\* so no stage worker takes a None off its queue while active is set.
C25_MainShutdownOrder ==
    /\ [](impl = "main" /\ active => StageNones = 0 /\ Nones(result_queue) = 0)
    /\ [][impl = "main" => MainShutdownStep]_vars

\* main.py's run() has ended and a stage worker has left its loop on the
\* None put for it
C25_Witness ==
    /\ impl = "main"
    /\ run_pc = "done"
    /\ Nones(result_queue) = 1
    /\ \E t \in StageThreads :
          /\ pc[t] = "done"
          /\ Nones(InputQueue(Kind(t))) = 0

\* ------------------------------------------------------------------ C26
\* the ProgramItems on program_queue
ProgramItems(q) == Cardinality({i \in DOMAIN q : q[i] # None})

NothingStarted ==
    /\ \A t \in StageThreads : pc[t] = "unstarted"
    /\ csv_pc = "unstarted"

\* C26: discovery runs once, on the orchestrator thread, and has put every
\* ProgramItem on the queue before any stage worker is started: while run()
\* is at discovery no thread has been started, ProgramItems are put only by
\* the discovery step, with no thread started, and run() never comes back
\* to discovery; so no worker takes an item while discovery is under way.
C26_DiscoveryBeforeWorkers ==
    /\ [](run_pc = "discover" => NothingStarted /\ program_queue = <<>>)
    /\ [][/\ ProgramItems(program_queue') > ProgramItems(program_queue) =>
                (run_pc = "discover" /\ run_pc' = "start" /\ NothingStarted)
          /\ hist'.root # hist.root => (hist.root = None /\ run_pc = "discover")
          /\ run_pc # "discover" => run_pc' # "discover"]_vars

\* discovery has listed a program link and a program worker, started after
\* it, has taken the item and is fetching its page
C26_Witness ==
    /\ hist.root # None
    /\ hist.root.with_href = 1
    /\ program_queue = <<>>
    /\ \E t \in ProgramThreads : pc[t] = "fetch"

\* ------------------------------------------------------------------ C27
\* the worker t takes an item off its queue in this step: the item leaves
\* the queue and becomes the item of t alone
TakesItem(t) == pc[t] = "get" /\ pc'[t] = "fetch"

TakenByOne(t) ==
    /\ InputQueue(Kind(t))' = Tail(InputQueue(Kind(t)))
    /\ loc'[t].item = Head(InputQueue(Kind(t)))
    /\ \A u \in StageThreads \ {t} : loc'[u] = loc[u] /\ pc'[u] = pc[u]

\* the items (None apart) on a queue
Items(q) == Cardinality({i \in DOMAIN q : q[i] # None})

\* C27: no failed work item is ever retried: an item taken off a queue is
\* taken by one worker and leaves the queue; ProgramItems come from
\* discovery only, DirectoryItems only from a program worker passing its
\* item on, ContactStubs only from a directory worker, so that no worker
\* puts an item on its own queue or on an earlier one; and a worker whose
\* item failed puts nothing on any queue.
C27_NoRetry ==
    [][/\ \A t \in StageThreads : TakesItem(t) => TakenByOne(t)
       /\ Items(program_queue') > Items(program_queue) => run_pc = "discover"
       /\ Items(directory_queue') > Items(directory_queue) =>
             \E t \in ProgramThreads : HoldsItem(pc[t]) /\ ~HoldsItem(pc'[t])
       /\ Items(profile_queue') > Items(profile_queue) =>
             \E t \in DirectoryThreads : HoldsItem(pc[t]) /\ ~HoldsItem(pc'[t])
       /\ \A t \in StageThreads :
             C6_FailsItem(t) =>
                 /\ program_queue' = program_queue
                 /\ directory_queue' = directory_queue
                 /\ profile_queue' = profile_queue
                 /\ result_queue' = result_queue]_vars

\* after a failed program item and a failed directory item all queues are
\* empty and all workers idle: nothing was put back
C27_Witness ==
    /\ stats.programs_without_faculty_url # EmptyDict
    /\ stats.programs_with_faculty_url # EmptyDict
    /\ hist.stubs = EmptyDict
    /\ AllProcessed
    /\ \A t \in StageThreads : pc[t] \in {"check", "get"}

\* ------------------------------------------------------------------ C28
\* the url the worker t presents is registered for a program other than its own
KnownForAnother(t) ==
    /\ loc[t].url \in DOMAIN processed_faculty_urls
    /\ processed_faculty_urls[loc[t].url] \ {loc[t].item.program} # {}

\* C28: when the directory pages of two different programs list the same
\* profile url, the directory stage puts a ContactStub for that url on
\* profile_queue for each program apart: a directory worker that is through
\* with a listed url known for another program holds or has put a stub for
\* that url and its own program (the same url is put once per program).
C28_StubPerProgram ==
    [][\A t \in DirectoryThreads :
          (Unlocks(t) /\ KnownForAnother(t)) =>
              StubsOf(hist', loc', PairOf(t)) >= 1]_vars


\* ------------------------------------------------------- layout strategies
\* the directory worker t leaves the fetch of its page
LeavesFetch(t) == pc[t] = "fetch" /\ pc'[t] # "fetch"

\* the directory worker t is done with the last element of its page
EndsPage(t) == pc[t] = "locked" /\ pc'[t] = "check"

\* elements are those of the first of the layouts (a), (b), (c) that yields any
FirstThatYields(elements, divs, program_name) ==
    LET a == Layout1(divs, program_name)
        b == Layout2(divs)
        c == Layout3(divs)
    IN  /\ a # <<>> => elements = a
        /\ a = <<>> /\ b # <<>> => elements = b
        /\ a = <<>> /\ b = <<>> => elements = c

\* the anchors of elements that are candidates: the first anchor of each
\* element, but for the text "Faculty Profiles", an empty name or an empty href
CandidateAnchors(elements) ==
    SelectSeq(elements,
              LAMBDA e : e.anchor /\ e.text \notin {"Faculty Profiles", ""}
                             /\ e.href # EmptyHref)

\* what worker t does with the page noted follows the layout order: the
\* candidates it goes on with are those of the first layout that yields any
FollowsLayoutOrder(t, noted) ==
    \E elements \in {Layout1(noted.fetched.divs, loc[t].item.program),
                     Layout2(noted.fetched.divs), Layout3(noted.fetched.divs)} :
        /\ FirstThatYields(elements, noted.fetched.divs, loc[t].item.program)
        /\ IF CandidateAnchors(elements) = <<>>
           THEN pc'[t] = "check"
           ELSE pc'[t] = "claim" /\ loc'[t].todo = CandidateAnchors(elements)

\* the candidate anchors of the page noted, for the program of worker t
PageCandidates(t) ==
    CandidateAnchors(WorkerElements(hist.page.fetched, loc[t].item.program))

\* the candidates not claimed yet: the (href, program) pair was not in the
\* index when the page was fetched and no earlier candidate has the href
Unclaimed(t) ==
    LET cands == PageCandidates(t)
    IN  {i \in DOMAIN cands :
            /\ ~AlreadyProcessed(hist.page.urls, cands[i].href, loc[t].item.program)
            /\ \A j \in 1 .. (i - 1) : cands[j].href # cands[i].href}

\* the contacts put on profile_queue in the step
PutOnProfileQueue == SubSeq(profile_queue', Len(profile_queue) + 1, Len(profile_queue'))

\* each of the candidates is a stub put on profile_queue, and nothing else is
StubsAre(t, candidates) ==
    LET cands == PageCandidates(t)
    IN  /\ Len(PutOnProfileQueue) = Cardinality(candidates)
        /\ \A i \in candidates :
              Cardinality({n \in DOMAIN PutOnProfileQueue :
                              PutOnProfileQueue[n] =
                                  ContactInfo(cands[i].text, loc[t].item.college,
                                              loc[t].item.program, cands[i].href)}) = 1
        /\ SubSeq(profile_queue', 1, Len(profile_queue)) = profile_queue

\* C29 as stated: the directory stage uses the elements of the first of the
\* layouts (a), (b), (c) that yields any, and every candidate anchor of that
\* layout (text not "Faculty Profiles", name and href not empty) becomes one
\* contact stub.
C29_StubPerCandidate ==
    [][\A t \in DirectoryThreads :
          /\ LeavesFetch(t) => FollowsLayoutOrder(t, hist'.page)
          /\ EndsPage(t) => StubsAre(t, DOMAIN PageCandidates(t))]_vars

\* C29: the directory stage uses the elements of the first of the layouts
\* (a), (b), (c) that yields any: (b) only when (a) yields nothing, (c) only
\* when (a) and (b) yield nothing.  Every candidate anchor of that layout
\* (text not "Faculty Profiles", name and href not empty) whose (href,
\* program) pair is not claimed already, by an earlier registration or by an
\* earlier anchor of the page, becomes one contact stub, and no other does.
C29_LayoutOrderAndStubs ==
    [][\A t \in DirectoryThreads :
          /\ LeavesFetch(t) => FollowsLayoutOrder(t, hist'.page)
          /\ EndsPage(t) => StubsAre(t, Unclaimed(t))]_vars

\* a page of a program with a div of its own on which layout (a) yields
\* nothing and layout (b) yields a "Faculty Profiles" anchor and a person: the
\* person's stub is on profile_queue
C29_Witness ==
    /\ hist.page # None
    /\ ~hist.page.fetched.error
    /\ Layout1(hist.page.fetched.divs, "Computer Technology") = <<>>
    /\ \E i \in DOMAIN Layout2(hist.page.fetched.divs) :
          Layout2(hist.page.fetched.divs)[i].text = "Faculty Profiles"
    /\ \E i \in DOMAIN hist.page.fetched.divs : hist.page.fetched.divs[i].id = "CT"
    /\ Len(profile_queue) = 1
    /\ profile_queue[1].department = "Computer Technology"
    /\ \A t \in DirectoryThreads : pc[t] = "check"


\* ------------------------------------------------------- contact ownership
\* the contacts among the items of a queue, in order
ContactsIn(q) == SelectSeq(q, LAMBDA x : x.kind = "contact")

\* the contacts of pair k in a sequence
OfPair(q, k) == {i \in DOMAIN q : q[i].kind = "contact" /\ StubPair(q[i]) = k}

\* who holds a contact of pair k: a directory worker building its list (l), a
\* place on profile_queue (pq), a profile worker between get and put (l), a
\* place on result_queue (rq), a row of the CSV writer (rows)
HoldersOf(k, l, pq, rq, rows) ==
    UNION {{<<"contacts", t, i>> : i \in OfPair(l[t].contacts, k)} : t \in DOMAIN l}
        \cup {<<"item", t>> : t \in {u \in DOMAIN l : /\ l[u].item.kind = "contact"
                                                      /\ StubPair(l[u].item) = k}}
        \cup {<<"profile_queue", i>> : i \in OfPair(pq, k)}
        \cup {<<"result_queue", i>> : i \in OfPair(rq, k)}
        \cup {<<"csv", i>> : i \in OfPair(rows, k)}

\* the contacts there are, as values
AllContacts(l, pq, rq, rows) ==
    UNION {{l[t].contacts[i] : i \in DOMAIN l[t].contacts} : t \in DOMAIN l}
        \cup {l[t].item : t \in {u \in DOMAIN l : l[u].item.kind = "contact"}}
        \cup {pq[i] : i \in {j \in DOMAIN pq : pq[j].kind = "contact"}}
        \cup {rq[i] : i \in {j \in DOMAIN rq : rq[j].kind = "contact"}}
        \cup {rows[i] : i \in DOMAIN rows}

\* the values the contacts of pair k have
ValuesOf(k, l, pq, rq, rows) == {x \in AllContacts(l, pq, rq, rows) : StubPair(x) = k}

\* the (profile_url, department) pairs of the contacts there are
ContactPairs == {StubPair(x) : x \in AllContacts(loc, profile_queue, result_queue, csv_rows)}

\* a contact is in one place at a time; on profile_queue it is a finished stub
\* without an email, on result_queue and with the CSV writer it has its email
OneHolder ==
    /\ \A k \in ContactPairs :
          Cardinality(HoldersOf(k, loc, profile_queue, result_queue, csv_rows)) <= 1
    /\ \A i \in DOMAIN profile_queue :
          profile_queue[i] # None =>
              /\ profile_queue[i].email = NoneName
              /\ profile_queue[i].name # ""
              /\ profile_queue[i].profile_url # EmptyHref
    /\ \A i \in DOMAIN result_queue :
          result_queue[i] # None => Truthy(result_queue[i].email)
    /\ \A i \in DOMAIN csv_rows : Truthy(csv_rows[i].email)

\* a contact of pair k is written in the step: it has another value after it
WrittenIn(k) ==
    LET before == ValuesOf(k, loc, profile_queue, result_queue, csv_rows)
        after == ValuesOf(k, loc', profile_queue', result_queue', csv_rows')
    IN  before # {} /\ after # {} /\ after # before

\* the only write to a contact that exists is the email a profile worker sets
\* on the contact it took from profile_queue and has not put on result_queue
WriteByHolder(k) ==
    \E t \in ProfileThreads :
        /\ pc[t] = "fetch"
        /\ HoldersOf(k, loc, profile_queue, result_queue, csv_rows) = {<<"item", t>>}
        /\ \E email \in Emails :
              ValuesOf(k, loc', profile_queue', result_queue', csv_rows') =
                  {[loc[t].item EXCEPT !.email = email]}
        /\ HoldersOf(k, loc', profile_queue', result_queue', csv_rows') =
               {<<"result_queue", Len(result_queue')>>}

\* C30: a contact record has at most one writer at any time and is never
\* written after hand-off: it is in one place at a time, the stub on
\* profile_queue is finished, and the only write to an existing record is the
\* email set by the profile worker that took it from profile_queue and has not
\* yet put it on result_queue; a record on result_queue or with the CSV writer
\* keeps its value.
C30_SingleWriter ==
    /\ [] OneHolder
    /\ [][\A k \in ContactPairs : WrittenIn(k) => WriteByHolder(k)]_vars

\* a record with its email is with the CSV writer while a profile worker
\* holds another record, taken from profile_queue and not put yet
C30_Witness ==
    /\ csv_rows # <<>>
    /\ \E t \in ProfileThreads :
          /\ pc[t] = "fetch"
          /\ loc[t].item.kind = "contact"
          /\ loc[t].item.email = NoneName


\* ------------------------------------------------------ growing statistics
IntegerCounters ==
    {"colleges_count", "programs_visited", "total_pages_visited", "total_emails_recorded"}
ProgramFlags == {"programs_with_faculty_url", "programs_without_faculty_url"}
ProgramCounts ==
    {"program_personnel_count", "program_complete_records", "program_incomplete_records"}

\* the statistics after are those before, grown
Grown(before, after) ==
    /\ \A f \in IntegerCounters : after[f] >= before[f]
    /\ \A m \in ProgramFlags \cup ProgramCounts : DOMAIN before[m] \subseteq DOMAIN after[m]
    /\ \A m \in ProgramCounts : \A k \in DOMAIN before[m] : after[m][k] >= before[m][k]

\* C31: during a run the statistics only grow: no integer counter and no
\* per-program count decreases in a step, and no key leaves a per-program map.
C31_StatsOnlyGrow == [][Grown(stats, stats')]_vars

\* a program has both failed and succeeded to give a faculty url, and its
\* personnel count has been raised
C31_Witness ==
    \E k \in DOMAIN stats.programs_with_faculty_url :
        /\ k \in DOMAIN stats.programs_without_faculty_url
        /\ k \in DOMAIN stats.program_personnel_count


\* --------------------------------------------------------- queue capacities
\* C32: each of the four queues has a finite capacity, and its length never
\* exceeds that capacity.
C32_QueuesBounded ==
    \A q \in {program_queue, directory_queue, profile_queue, result_queue} :
        /\ maxsize > 0
        /\ Len(q) <= maxsize


\* ------------------------------------------------------------ the CSV header
\* the header rows among rows
Headers(rows) == {i \in DOMAIN rows : rows[i] = CsvHeader}

\* rows hold exactly one header row, and it is the first row
HeaderOnceAndFirst(rows) == Headers(rows) = {1}

\* csv_worker opens contacts.csv in the step
Opens == csv_pc = "unstarted" /\ csv_pc' # "unstarted"

\* a header row is written in the step
WritesHeader ==
    Cardinality(Headers(csv_file'.disk \o csv_file'.buffer))
        > Cardinality(Headers(csv_file.disk \o csv_file.buffer))

\* the header is written when the file is opened and is empty then, and at
\* no other time
HeaderOnlyOnEmptyOpen == WritesHeader <=> (Opens /\ Len(csv_file.disk) = 0)

\* C33 as stated: the header row is written only when the file is empty at
\* the moment it is opened, and whenever run() has returned, the file on disk
\* holds exactly one header row, which is its first row.
C33_OneHeaderAfterRun ==
    /\ [][HeaderOnlyOnEmptyOpen]_vars
    /\ [](run_pc = "done" => HeaderOnceAndFirst(csv_file.disk))

\* C33: the header row is written only when the file is empty at the moment
\* it is opened.  Across consecutive runs the file on disk, unless it is
\* empty, holds exactly one header row, which is its first row; it is not
\* empty once csv_worker has written a record or has closed the file.  (The
\* header waits in the buffer of the file object until then.)
C33_OneHeaderIfAny ==
    /\ [][HeaderOnlyOnEmptyOpen]_vars
    /\ [](/\ Len(csv_file.disk) = 0 \/ HeaderOnceAndFirst(csv_file.disk)
          /\ (csv_rows # <<>> \/ csv_pc = "done") => HeaderOnceAndFirst(csv_file.disk))

\* the second run has appended a record to the file in which the first run
\* left the header and a record
C33_Witness ==
    /\ hist.runs = 2
    /\ csv_rows # <<>>
    /\ Len(csv_file.disk) = 3
    /\ HeaderOnceAndFirst(csv_file.disk)


\* -------------------------------------------------- no shutdown before time
\* every started thread is alive: the stage workers and the CSV writer
AllAlive == (\A t \in StageThreads : is_alive(t)) /\ csv_is_alive

\* C34: without a KeyboardInterrupt run() does not leave its wait loop before
\* the deadline, whatever the queues hold: while active is set and the
\* deadline has not passed, every stage worker and the CSV writer is alive, so
\* the wait condition stays true.
C34_NoShutdownBeforeDeadline ==
    /\ [](run_pc = "wait" /\ ~expired => active /\ AllAlive /\ WaitCondition)
    /\ [][BeginsShutdown /\ run_pc' # "except" => expired]_vars

\* before the deadline every item is processed, a record is written, every
\* queue is empty and every thread is blocked in get: run() still waits
C34_Witness ==
    /\ run_pc = "wait"
    /\ ~expired
    /\ csv_rows # <<>>
    /\ program_queue = <<>> /\ directory_queue = <<>>
    /\ profile_queue = <<>> /\ result_queue = <<>>
    /\ \A t \in StageThreads : pc[t] = "get"
    /\ csv_pc = "get"


\* ---------------------------------------------------------- run() returns
\* the shutdown of run() has begun and run() has not returned
ShuttingDown == run_pc \in {"finally", "except", "signal", "join"}

\* the next step of the shutdown can be taken, whatever the workers do
ShutdownNotHeld ==
    /\ run_pc \in {"finally", "except"} => ENABLED ClearActive
    /\ run_pc = "signal" => ENABLED SignalThreads
    /\ run_pc = "join" => ENABLED JoinThreads

\* run() has returned; the packaged run() has appended its snapshot to the
\* statistics file
Returned ==
    /\ run_pc = "done"
    /\ impl = "packaged" =>
          Len(stats_file.items) = Len(existing_data(hist.stats_file)) + 1

\* C35: once the shutdown has begun, run() returns: none of its remaining
\* steps waits for a worker (every join has a timeout), so it comes to its
\* end, the packaged run() having written the statistics snapshot, even when
\* workers stay blocked.
C35_RunReturns ==
    /\ [] ShutdownNotHeld
    /\ ShuttingDown ~> Returned

\* the packaged run() has returned with its snapshot written while a stage
\* worker and the CSV writer are blocked in get() on empty queues
C35_Witness ==
    /\ impl = "packaged"
    /\ Returned
    /\ \E t \in StageThreads : pc[t] = "get" /\ InputQueue(Kind(t)) = <<>>
    /\ csv_pc = "get" /\ result_queue = <<>>

\* ------------------------------------------------------------------------ C36
Locks == {"faculty_url_lock", "stats_lock", "csv_lock"}

HolderOf(lock) ==
    IF lock = "faculty_url_lock" THEN faculty_url_lock
    ELSE IF lock = "stats_lock" THEN stats_lock
    ELSE csv_lock

LocksHeldBy(t) == {lock \in Locks : HolderOf(lock) = t}

\* the thread is at the entry of a with block of one of the locks
WaitsForLock(t) ==
    \/ t \in DOMAIN pc /\ pc[t] \in {"claim", "stats_lock"}
    \/ t = CsvThread /\ csv_pc = "csv_lock"
    \/ t = StatsThread /\ stats_pc = "lock"

LockUsers == DOMAIN pc \cup {CsvThread, StatsThread}

\* C36: no thread holds more than one of faculty_url_lock, stats_lock and
\* csv_lock at a time, and no thread that holds one of them waits for
\* another, so that no cycle of lock waits can form
C36_OneLockAtATime ==
    \A t \in LockUsers :
        /\ Cardinality(LocksHeldBy(t)) <= 1
        /\ LocksHeldBy(t) # {} => ~WaitsForLock(t)

\* the three locks are held at once, by three threads, and a fourth thread
\* waits for one of them
C36_Witness ==
    /\ \A lock \in Locks : HolderOf(lock) # NoThread
    /\ \E t \in LockUsers : WaitsForLock(t)

\* ------------------------------------------------------------------------ C37
CountOf(counts, program_name) == DictGet(counts, program_name, 0)

CountedPrograms ==
    DOMAIN stats.program_personnel_count \cup DOMAIN stats.program_complete_records
        \cup DOMAIN stats.program_incomplete_records

\* C37: for every program the complete and the incomplete records together
\* are at most the personnel found, a missing key counting as 0
C37_RecordsWithinPersonnel ==
    \A p \in CountedPrograms \cup ProgNames :
        CountOf(stats.program_complete_records, p)
            + CountOf(stats.program_incomplete_records, p)
                <= CountOf(stats.program_personnel_count, p)

\* every contact found for a program has been counted complete or incomplete,
\* and there is one of each
C37_Witness ==
    \E p \in CountedPrograms :
        /\ CountOf(stats.program_complete_records, p) >= 1
        /\ CountOf(stats.program_incomplete_records, p) >= 1
        /\ CountOf(stats.program_complete_records, p)
               + CountOf(stats.program_incomplete_records, p)
                   = CountOf(stats.program_personnel_count, p)

\* ------------------------------------------------------------------------ C38
\* C38: no program name is both in programs_with_faculty_url and in
\* programs_without_faculty_url, two items of one program name included
C38_SuccessOrFailure ==
    DOMAIN stats.programs_with_faculty_url
        \cap DOMAIN stats.programs_without_faculty_url = {}

\* ------------------------------------------------------------------------ C39
RECURSIVE SuccessesIn(_, _)
SuccessesIn(recorded, keys) ==
    IF keys = {} THEN 0
    ELSE LET k == CHOOSE k \in keys : TRUE
             n == IF k[1] = "faculty_url_success" /\ Truthy(k[2]) THEN recorded[k] ELSE 0
         IN  n + SuccessesIn(recorded, keys \ {k})

\* the update_stats("faculty_url_success", program_name) calls that have
\* returned, of a program_name that is not empty
SuccessesRecorded == SuccessesIn(hist.recorded, DOMAIN hist.recorded)

PagesCounted ==
    stats.total_pages_visited = 1 + stats.programs_visited + SuccessesRecorded

\* the thread returns from an update_stats call of the directory loop or of
\* the profile loop
DirectoryOrProfileUpdate(t) ==
    /\ Kind(t) \in {"directory", "profile"}
    /\ pc[t] = "stats_locked"
    /\ pc'[t] # "stats_locked"

\* C39: whenever stats_lock is free, total_pages_visited is 1 plus
\* programs_visited plus the faculty_url_success updates recorded for program
\* names that are not empty; the updates of the directory and of the profile
\* workers leave total_pages_visited as it is
C39_PagesVisited ==
    /\ [](stats_lock = NoThread => PagesCounted)
    /\ [][\A t \in StageThreads :
             DirectoryOrProfileUpdate(t)
                 => stats'.total_pages_visited = stats.total_pages_visited]_vars

\* stats_lock is free after a program update, a faculty_url_success update of
\* a program name and an update of a directory or profile worker
C39_Witness ==
    /\ stats_lock = NoThread
    /\ stats.programs_visited >= 1
    /\ SuccessesRecorded >= 1
    /\ stats.total_pages_visited = 3
    /\ \E k \in DOMAIN hist.recorded :
          k[1] \in {"personnel_found", "complete_record", "incomplete_record"}

====
